---- MODULE Spec2Model ----
(***************************************************************************)
(* Opportunity detection and profit evaluation pipeline of the arbitrage   *)
(* bot: price cache, arbitrage detector, profit calculator, trade          *)
(* simulator and the bot's opportunity handling.                           *)
(*                                                                         *)
(* Numbers. BigNumber values are carried as integers counting              *)
(* 10^-DecimalPlaces (fixed point, truncating toward zero as               *)
(* ROUND_DOWN does).  Gas prices are carried in gwei.  Token amounts in    *)
(* base units are carried as a fixed-point count of whole tokens together  *)
(* with the power of ten that scales it.                                   *)
(***************************************************************************)
EXTENDS Integers, Sequences, FiniteSets, TLC

(***************************************************************************)
(* Bounds of the model                                                     *)
(***************************************************************************)
DecimalPlaces == 4
MaxScans == 2
MaxUpdates == 2
TickMs == 200000
MaxTime == 400000

(***************************************************************************)
(* Fixed-point arithmetic standing for bignumber.js                        *)
(***************************************************************************)
RECURSIVE Pow10(_)
Pow10(n) == IF n <= 0 THEN 1 ELSE 10 * Pow10(n - 1)

Unit == Pow10(DecimalPlaces)

Abs(x) == IF x < 0 THEN -x ELSE x

Sgn(x) == IF x < 0 THEN -1 ELSE 1

TruncDiv(a, b) == Sgn(a) * Sgn(b) * (Abs(a) \div Abs(b))

\* new BigNumber(n) for an integer n
BN(n) == n * Unit

\* new BigNumber(n / 10^k), a decimal literal with k places
BNDec(n, k) == TruncDiv(n * Unit, Pow10(k))

\* the product of two fractional parts (0 <= ra, rb < Unit), truncated
MulFrac(ra, rb) ==
  LET S == Pow10(DecimalPlaces \div 2)
      T == Unit \div S
  IN  (ra * (rb \div S) + (ra * (rb % S)) \div S) \div T

\* a.multipliedBy(b); split so that no intermediate product grows large
multipliedBy(a, b) ==
  LET qa == Abs(a) \div Unit
      ra == Abs(a) % Unit
      qb == Abs(b) \div Unit
      rb == Abs(b) % Unit
  IN  Sgn(a) * Sgn(b) * (qa * qb * Unit + qa * rb + ra * qb + MulFrac(ra, rb))

\* long division of non-negative a by positive b to k further decimal digits
RECURSIVE LongDiv(_, _, _)
LongDiv(a, b, k) ==
  IF k = 0 THEN a \div b
  ELSE (a \div b) * Pow10(k) + LongDiv((a % b) * 10, b, k - 1)

\* a.dividedBy(b), truncated to DecimalPlaces
dividedBy(a, b) == Sgn(a) * Sgn(b) * LongDiv(Abs(a), Abs(b), DecimalPlaces)

\* HelperUtils.fromWei applied to an amount given in gwei (10^9 wei)
fromWei(gweiAmount) == TruncDiv(gweiAmount, Pow10(9 - DecimalPlaces))

\* HelperUtils.meetsProfitThreshold
meetsProfitThreshold(profit, threshold) == profit >= threshold

(***************************************************************************)
(* Configuration (config/constants.js)                                     *)
(***************************************************************************)
TOKEN_PAIRS == << <<"USDT", "WETH">>, <<"WBTC", "WETH">>, <<"DAI", "WETH">> >>

FEE_TIERS_MEDIUM == 3000

DefaultGasPriceGwei == 20

\* process.env.MIN_PROFIT_USD: 0 stands for "not set"
EnvMinProfitValues == {0, -10}

\* ARBITRAGE_CONFIG.MIN_PROFIT_THRESHOLD_USD
MIN_PROFIT_THRESHOLD_USD(env) == IF env = 0 THEN BN(50) ELSE BN(env)

\* parseFloat(process.env.MIN_PROFIT_USD) || 1 in scanForOpportunities
ScanMinProfitUSD(env) == IF env = 0 THEN BN(1) ELSE BN(env)

decimals(token) ==
  CASE token = "WETH" -> 18
    [] token = "USDC" -> 6
    [] token = "USDT" -> 6
    [] token = "WBTC" -> 8
    [] token = "DAI"  -> 18
    [] OTHER -> 0

(***************************************************************************)
(* State                                                                   *)
(***************************************************************************)
VARIABLES
  prices,          \* PriceFetcher.prices: observations in Map insertion order
  updates,         \* number of completed price updates (bounded)
  now,             \* Date.now() in ms
  envMinProfit,    \* process.env.MIN_PROFIT_USD (0: not set)
  totalScans,      \* ArbitrageDetector.stats.totalScans
  scanPc,          \* position of the running scanForOpportunities
  scanIdx,         \* index of the pair / path / candidate being handled
  newOpps,         \* newOpportunities, then profitableOpportunities of the scan
  opportunities,   \* ArbitrageDetector.opportunities, keyed by getOpportunityKey
  nextId,          \* stands for HelperUtils.generateId()
  lastDetect,      \* last call of a detect function: its inputs and its result
  handed,          \* record most recently handed to the opportunity store
  botQueue,        \* opportunities notified to the bot, not yet handled
  gasPriceCache,   \* ProfitCalculator.gasPriceCache.gasPrice in gwei (0: no cache)
  lastProfit,      \* last call of the profit calculator: its inputs and its result
  gasLog,          \* initialize returned; the last refresh and calculateGasCost call
  simulationCache, \* TradeSimulator.simulationCache: key -> result and timestamp
  simCalls,        \* the simulate calls of each caller: position and locals
  cacheHits,       \* TradeSimulator.cacheHits (0: not yet set)
  cacheRequests,   \* TradeSimulator.cacheRequests (0: not yet set)
  enableTradeExecution, \* process.env.ENABLE_TRADE_EXECUTION === 'true'
  botCall,         \* the running handleNewOpportunity: position and locals
  botStats,        \* ArbitrageBot.stats
  botStore,        \* the Opportunity collection, keyed by opportunity id
  rpcInvoked,      \* the RPCManager methods the bot has invoked
  lastExecute,     \* last call of executeOpportunity: its arguments
  priceHistory,    \* PriceFetcher.priceHistory: key -> observations kept
  priceCalls,      \* the running updatePriceV3 / updatePriceV2 calls
  chainHead,       \* block height of the chain the RPC providers follow
  priceWrites,     \* per key, every observation written so far, in order
  priceLimit,      \* number of price updates the run is taken to
  normCall,        \* last call of the price normalizer: its inputs and its result
  apiStore,        \* the Opportunity collection the API routes read and save
  apiReqs,         \* the running POST /api/simulate/opportunity requests
  apiSims,         \* number of simulations the simulate route has started
  rpcInit,         \* the running RPCManager.initialize: position and url index
  rpcProviders,    \* RPCManager.providers, in Map insertion order
  rpcCurrent,      \* index of RPCManager.currentProvider (0: null)
  rpcExec,         \* the running RPCManager.execute: position and locals
  rpcExecs,        \* number of execute calls started
  statusUpdate, \* last call of updateOpportunityStatus: its arguments and the map before
  cacheClears, \* number of clearCache calls so far
  svc,             \* per service: isRunning, its interval field, its running cycles
  timers,          \* the interval timers that are active (set and not cleared)
  timerSeq,        \* number of interval timers created so far
  lifeCall,        \* last start / stop call: the service and whether it was running
  botLife,         \* ArbitrageBot: isRunning, isShuttingDown, services, start and stop positions
  scheduled,       \* the periodic tasks of the bot and its services that are scheduled
  lastMark, \* the last call of a method of the Opportunity document, as issued
  oppDb, \* the writes that reached the Opportunity collection and the records simulated
  lastScan         \* ArbitrageDetector.lastScan (-1: null)

detVars == <<prices, updates, now, envMinProfit, totalScans, scanPc, scanIdx,
             newOpps, opportunities, nextId, lastDetect, handed, botQueue>>

profVars == <<gasPriceCache, lastProfit, gasLog>>

simVars == <<simulationCache, simCalls, cacheHits, cacheRequests>>

botVars == <<enableTradeExecution, botCall, botStats, botStore, rpcInvoked,
             lastExecute>>

\* every variable of the detector but the clock
detVarsButNow == <<prices, updates, envMinProfit, totalScans, scanPc, scanIdx,
                   newOpps, opportunities, nextId, lastDetect, handed, botQueue>>

\* every variable of the detector but the price cache
detVarsButPrices == <<updates, now, envMinProfit, totalScans, scanPc, scanIdx,
                      newOpps, opportunities, nextId, lastDetect, handed, botQueue>>

pxVars == <<priceHistory, priceCalls, chainHead, priceWrites, priceLimit>>

normVars == <<normCall>>

routeVars == <<apiStore, apiReqs, apiSims>>

rpcVars == <<rpcInit, rpcProviders, rpcCurrent, rpcExec, rpcExecs>>

lifeVars == <<svc, timers, timerSeq, lifeCall, botLife, scheduled>>

auxVars == <<statusUpdate, cacheClears, lifeVars, lastMark, oppDb>>

scanVars == <<lastScan, auxVars>>

svcVars == <<routeVars, rpcVars, scanVars>>

nonDetVars == <<profVars, simVars, botVars, pxVars, normVars, svcVars>>

nonProfVars == <<detVars, simVars, botVars, pxVars, normVars, svcVars>>

nonSimVars == <<detVarsButNow, profVars, botVars, pxVars, normVars, svcVars>>

vars == <<detVars, profVars, simVars, botVars, pxVars, normVars, svcVars>>

(***************************************************************************)
(* Price cache (PriceFetcher)                                              *)
(***************************************************************************)
\* getPriceKey
getPriceKey(dexName, tokenA, tokenB, feeTier) == <<dexName, tokenA, tokenB, feeTier>>

ObsKey(obs) == getPriceKey(obs.dex, obs.tokenA, obs.tokenB, obs.feeTier)

\* Map.prototype.set on the insertion-ordered map
MapSet(m, obs) ==
  IF \E i \in 1..Len(m) : ObsKey(m[i]) = ObsKey(obs)
  THEN [i \in 1..Len(m) |-> IF ObsKey(m[i]) = ObsKey(obs) THEN obs ELSE m[i]]
  ELSE Append(m, obs)

\* Map.prototype.get; NoObs when the key is absent
NoObs == [dex |-> "none", tokenA |-> "", tokenB |-> "", feeTier |-> 0, price |-> 0]

MapGet(m, key) ==
  IF \E i \in 1..Len(m) : ObsKey(m[i]) = key
  THEN m[CHOOSE i \in 1..Len(m) : ObsKey(m[i]) = key]
  ELSE NoObs

\* getPrice without a fee tier that tries the medium tier first
getPricePreferringMedium(m, dexName, tokenA, tokenB) ==
  IF MapGet(m, getPriceKey(dexName, tokenA, tokenB, 3000)) # NoObs
  THEN MapGet(m, getPriceKey(dexName, tokenA, tokenB, 3000))
  ELSE IF MapGet(m, getPriceKey(dexName, tokenA, tokenB, 500)) # NoObs
  THEN MapGet(m, getPriceKey(dexName, tokenA, tokenB, 500))
  ELSE MapGet(m, getPriceKey(dexName, tokenA, tokenB, 10000))

\* getPrice without a fee tier: first tier of 500, 3000, 10000 that has a price
getPrice(m, dexName, tokenA, tokenB) ==
  LET p500 == MapGet(m, getPriceKey(dexName, tokenA, tokenB, 500))
      p3000 == MapGet(m, getPriceKey(dexName, tokenA, tokenB, 3000))
      p10000 == MapGet(m, getPriceKey(dexName, tokenA, tokenB, 10000))
  IN  IF p500 # NoObs THEN p500
      ELSE IF p3000 # NoObs THEN p3000
      ELSE p10000

\* getPrice(dexName, tokenA, tokenB, feeTier): a falsy feeTier (0 stands for
\* an omitted one) takes the loop over the tiers
getPriceAtTier(m, dexName, tokenA, tokenB, feeTier) ==
  IF feeTier # 0 THEN MapGet(m, getPriceKey(dexName, tokenA, tokenB, feeTier))
  ELSE getPrice(m, dexName, tokenA, tokenB)

\* the loop of getBestPrice over its two venues, given what getPrice returned
\* for each: the highest positive price, the first venue winning a tie
BestOfVenues(u, s) ==
  LET afterU == IF u # NoObs /\ u.price > 0 THEN [price |-> u, dex |-> "UNISWAP_V3"]
                ELSE [price |-> NoObs, dex |-> "none"]
  IN  IF s # NoObs /\ s.price > 0 /\ (afterU.price = NoObs \/ s.price > afterU.price.price)
      THEN [price |-> s, dex |-> "SUSHISWAP_V3"]
      ELSE afterU

\* getBestPrice: highest positive price over UNISWAP_V3 and SUSHISWAP_V3
getBestPrice(m, tokenA, tokenB) ==
  BestOfVenues(getPrice(m, "UNISWAP_V3", tokenA, tokenB),
               getPrice(m, "SUSHISWAP_V3", tokenA, tokenB))

(***************************************************************************)
(* Arbitrage detector                                                      *)
(***************************************************************************)
NoOpp == [type |-> "none"]

\* outcome of the awaited rpcManager.getGasPrice(): -1 the call rejects,
\* 0 feeData.gasPrice is missing, otherwise the gas price in gwei
GasOutcomes == {-1, 0, 20}

\* estimateGasCost: gasPrice * 300000 through fromWei, 10 when the call fails
estimateGasCost(gas) ==
  IF gas = -1 THEN BN(10)
  ELSE fromWei((IF gas = 0 THEN DefaultGasPriceGwei ELSE gas) * 300000)

\* estimateTriangularGasCost: gasPrice * 500000 through fromWei, 15 on failure
estimateTriangularGasCost(gas) ==
  IF gas = -1 THEN BN(15)
  ELSE fromWei((IF gas = 0 THEN DefaultGasPriceGwei ELSE gas) * 500000)

\* calculateSwapFees: tradeAmount * (0.003 * 2)
calculateSwapFees(tradeAmount) == multipliedBy(tradeAmount, BNDec(6, 3))

\* calculateTriangularSwapFees: tradeAmount * (0.003 * trades.length)
calculateTriangularSwapFees(tradeAmount, legs) ==
  multipliedBy(tradeAmount, BNDec(3 * legs, 3))

\* poolId.split('_')[0] of a venue identifier
DexPrefix(dex) ==
  CASE dex = "UNISWAP_V3" -> "UNISWAP"
    [] dex = "SUSHISWAP_V2" -> "SUSHISWAP"
    [] dex = "SUSHISWAP_V3" -> "SUSHISWAP"
    [] OTHER -> dex

\* the observations of the pair, in either orientation, in map order
RelevantPrices(m, tokenA, tokenB) ==
  SelectSeq(m, LAMBDA pd : \/ (pd.tokenA = tokenA /\ pd.tokenB = tokenB)
                           \/ (pd.tokenA = tokenB /\ pd.tokenB = tokenA))

\* an observation turned to quote tokenB per tokenA, with its poolId
NormalizeObs(pd, tokenA) ==
  LET flipped == pd.tokenA # tokenA
      nA == IF flipped THEN pd.tokenB ELSE pd.tokenA
      nB == IF flipped THEN pd.tokenA ELSE pd.tokenB
  IN  [dex |-> pd.dex, tokenA |-> nA, tokenB |-> nB, feeTier |-> pd.feeTier,
       price |-> IF flipped THEN dividedBy(BN(1), pd.price) ELSE pd.price,
       poolId |-> <<pd.dex, nA, nB, IF pd.feeTier = 0 THEN 3000 ELSE pd.feeTier>>]

NoBest == [dex |-> "none"]

\* the loop of detectSimpleArbitrage over relevantPrices: strict lt / gt, so
\* the first observation in map order wins a tie
RECURSIVE SelectBest(_, _, _, _, _)
SelectBest(rel, i, tokenA, bestBuy, bestSell) ==
  IF i > Len(rel) THEN [buy |-> bestBuy, sell |-> bestSell]
  ELSE IF rel[i].price = 0 THEN SelectBest(rel, i + 1, tokenA, bestBuy, bestSell)
  ELSE LET n == NormalizeObs(rel[i], tokenA)
           b == IF bestBuy = NoBest \/ n.price < bestBuy.price THEN n ELSE bestBuy
           s == IF bestSell = NoBest \/ n.price > bestSell.price THEN n ELSE bestSell
       IN  SelectBest(rel, i + 1, tokenA, b, s)

SamePoolNever(bestBuy, bestSell) == FALSE

\* bestBuy.poolId === bestSell.poolId
SamePool(bestBuy, bestSell) == bestBuy.poolId = bestSell.poolId

BelowMinSpreadNever(pct) == FALSE

\* priceDifferencePercent.lt(0.5)
BelowMinSpread(pct) == pct < BNDec(5, 1)

SimpleTradeAmount == BN(1000)

\* detectSimpleArbitrage from the spread on: fees, profit and the candidate
SimpleFromSpread(bestBuy, bestSell, priceDifferencePercent, estimatedGasCost, tokenA, tokenB, t, id, env) ==
  LET tradeAmount == SimpleTradeAmount
      swapFees == calculateSwapFees(tradeAmount)
      totalFees == swapFees + estimatedGasCost
      grossProfit ==
        multipliedBy(tradeAmount, dividedBy(priceDifferencePercent, BN(100)))
      expectedProfit == grossProfit - totalFees
  IN
  IF BelowMinSpread(priceDifferencePercent) THEN NoOpp
  ELSE IF ~meetsProfitThreshold(expectedProfit, MIN_PROFIT_THRESHOLD_USD(env))
  THEN NoOpp
  ELSE [id |-> id, type |-> "simple", tokenA |-> tokenA, tokenB |-> tokenB,
        buyDex |-> DexPrefix(bestBuy.dex), sellDex |-> DexPrefix(bestSell.dex),
        buyPool |-> bestBuy.poolId, sellPool |-> bestSell.poolId,
        buyPrice |-> bestBuy.price, sellPrice |-> bestSell.price,
        priceDifferencePercent |-> priceDifferencePercent,
        tradeAmount |-> tradeAmount,
        expectedOutput |-> tradeAmount + grossProfit,
        expectedProfit |-> expectedProfit,
        swapFees |-> swapFees, gasCost |-> estimatedGasCost,
        totalFees |-> totalFees, timestamp |-> t, status |-> "detected"]

\* detectSimpleArbitrage from the chosen buy and sell observations on
SimpleFromBest(bestBuy, bestSell, tokenA, tokenB, gas, t, id, env) ==
  IF bestBuy = NoBest \/ bestSell = NoBest \/ SamePool(bestBuy, bestSell)
  THEN NoOpp
  ELSE SimpleFromSpread(bestBuy, bestSell,
         multipliedBy(dividedBy(bestSell.price - bestBuy.price, bestBuy.price), BN(100)),
         estimateGasCost(gas), tokenA, tokenB, t, id, env)

\* the buy and sell observations chosen among relevantPrices
SimpleFromRelevant(best, tokenA, tokenB, gas, t, id, env) ==
  SimpleFromBest(best.buy, best.sell, tokenA, tokenB, gas, t, id, env)

\* detectSimpleArbitrage(tokenA, tokenB) on cache m, with the outcome of the
\* gas price call, the clock and the generated id
detectSimpleArbitrage(m, tokenA, tokenB, gas, t, id, env) ==
  IF Len(RelevantPrices(m, tokenA, tokenB)) < 2 THEN NoOpp
  ELSE SimpleFromRelevant(
         SelectBest(RelevantPrices(m, tokenA, tokenB), 1, tokenA, NoBest, NoBest),
         tokenA, tokenB, gas, t, id, env)

TriangularPaths ==
  << <<"USDC", "WETH", "WBTC">>, <<"USDC", "USDT", "WETH">>,
     <<"USDC", "DAI", "WETH">>, <<"USDT", "WETH", "WBTC">>,
     <<"DAI", "WETH", "WBTC">> >>

EffectiveRateTwoLegs(pAB, pBC, pCA) == multipliedBy(pAB, pBC)

\* priceAB * priceBC * priceCA
EffectiveRate(pAB, pBC, pCA) == multipliedBy(multipliedBy(pAB, pBC), pCA)

\* detectTriangularPath from the effective rate on
TriangularFromRate(effectiveRate, legDex, path, estimatedGasCost, t, id, env) ==
  LET profitRate == effectiveRate - BN(1)
      tradeAmount == BN(1000)
      expectedProfit == multipliedBy(tradeAmount, profitRate)
      swapFees == calculateTriangularSwapFees(tradeAmount, 3)
      totalFees == swapFees + estimatedGasCost
      netProfit == expectedProfit - totalFees
  IN
  IF profitRate < BNDec(5, 3) THEN NoOpp
  ELSE IF ~meetsProfitThreshold(netProfit, MIN_PROFIT_THRESHOLD_USD(env))
  THEN NoOpp
  ELSE [id |-> id, type |-> "triangular", tokenA |-> path[1],
        tokenB |-> path[2], tokenC |-> path[3], path |-> path,
        effectiveRate |-> effectiveRate, profitRate |-> profitRate,
        tradeAmount |-> tradeAmount, expectedProfit |-> expectedProfit,
        expectedOutput |-> netProfit + tradeAmount, netProfit |-> netProfit,
        swapFees |-> swapFees, gasCost |-> estimatedGasCost,
        totalFees |-> totalFees, legDex |-> legDex,
        timestamp |-> t, status |-> "detected"]

\* a variant that takes a missing leg to trade at par
TriangularFromLegsDefaulting(priceAB, priceBC, priceCA, path, gas, t, id, env) ==
  TriangularFromRate(
    EffectiveRate(IF priceAB.price = NoObs THEN BN(1) ELSE priceAB.price.price,
                  IF priceBC.price = NoObs THEN BN(1) ELSE priceBC.price.price,
                  IF priceCA.price = NoObs THEN BN(1) ELSE priceCA.price.price),
    <<priceAB.dex, priceBC.dex, priceCA.dex>>, path,
    estimateTriangularGasCost(gas), t, id, env)

\* detectTriangularPath from the best prices of its three legs on
TriangularFromLegs(priceAB, priceBC, priceCA, path, gas, t, id, env) ==
  IF priceAB.price = NoObs \/ priceBC.price = NoObs \/ priceCA.price = NoObs
  THEN NoOpp
  ELSE TriangularFromRate(
         EffectiveRate(priceAB.price.price, priceBC.price.price, priceCA.price.price),
         <<priceAB.dex, priceBC.dex, priceCA.dex>>, path,
         estimateTriangularGasCost(gas), t, id, env)

\* detectTriangularPath([tokenA, tokenB, tokenC])
detectTriangularPath(m, path, gas, t, id, env) ==
  TriangularFromLegs(getBestPrice(m, path[1], path[2]),
                     getBestPrice(m, path[2], path[3]),
                     getBestPrice(m, path[3], path[1]), path, gas, t, id, env)

\* getOpportunityKey
getOpportunityKey(opp) ==
  IF opp.type = "simple"
  THEN <<"simple", opp.tokenA, opp.tokenB, opp.buyDex, opp.sellDex>>
  ELSE <<"triangular", opp.path>>

(***************************************************************************)
(* Records handed to the opportunity store                                 *)
(***************************************************************************)
NoRecord == [writer |-> "none"]

\* dbOpportunity of ArbitrageDetector.saveOpportunityToDatabase
DetectorDbOpportunity(opp) ==
  [writer |-> "detector", id |-> opp.id,
   expectedProfitUSD |-> opp.expectedProfit,
   grossProfitUSD |-> opp.expectedProfit + opp.totalFees,
   netProfitUSD |-> opp.expectedProfit,
   gasCostUSD |-> opp.gasCost,
   swapFeesUSD |-> opp.swapFees,
   totalFeesUSD |-> opp.totalFees,
   status |-> opp.status]

\* parseFloat(x) / 1e18 * 2400, at the resolution of the model
WeiToUSD(x) ==
  multipliedBy(TruncDiv(TruncDiv(x, Pow10(9)), Pow10(9)), BN(2400))

\* opportunityData of ArbitrageBot.saveOpportunityToDatabase
BotOpportunityData(opp) ==
  LET expectedProfitUSD == WeiToUSD(opp.expectedProfit)
      gasCostUSD == opp.gasCost
      swapFeesUSD == WeiToUSD(opp.swapFees)
      totalFeesUSD == gasCostUSD + swapFeesUSD
      netProfitUSD == expectedProfitUSD - totalFeesUSD
  IN  [writer |-> "bot", id |-> opp.id,
       expectedProfitUSD |-> expectedProfitUSD,
       grossProfitUSD |-> expectedProfitUSD + totalFeesUSD,
       netProfitUSD |-> netProfitUSD,
       gasCostUSD |-> gasCostUSD,
       swapFeesUSD |-> swapFeesUSD,
       totalFeesUSD |-> totalFeesUSD,
       status |-> "detected"]

(***************************************************************************)
(* Price updates and the scan loop                                         *)
(***************************************************************************)
\* pools found by pool discovery (the environment of updateAllPrices)
V3Pools ==
  { <<"UNISWAP_V3", "USDT", "WETH", 500>>, <<"UNISWAP_V3", "USDT", "WETH", 3000>>,
    <<"UNISWAP_V3", "DAI", "WETH", 3000>> }

V2Pools == { <<"USDT", "WETH">> }

\* prices the pools may quote, in thousandths
PriceTicks == {0, 1000, 1004, 1057}

Tick(n) == TruncDiv(n * Unit, 1000)

\* updatePriceV3 completing with the price computed from slot0
updatePriceV3(key, p) ==
  /\ updates < MaxUpdates
  /\ key \in V3Pools
  /\ prices' = MapSet(prices, [dex |-> key[1], tokenA |-> key[2], tokenB |-> key[3],
                                feeTier |-> key[4], price |-> Tick(p)])
  /\ updates' = updates + 1
  /\ UNCHANGED nonDetVars
  /\ UNCHANGED <<now, envMinProfit, totalScans, scanPc, scanIdx, newOpps,
                 opportunities, nextId, lastDetect, handed, botQueue>>

\* updatePriceV2 completing; a falsy price stores nothing
updatePriceV2(pair, p) ==
  /\ updates < MaxUpdates
  /\ pair \in V2Pools
  /\ p # 0
  /\ prices' = MapSet(prices, [dex |-> "SUSHISWAP_V2", tokenA |-> pair[1],
                                tokenB |-> pair[2], feeTier |-> 3000,
                                price |-> Tick(p)])
  /\ updates' = updates + 1
  /\ UNCHANGED nonDetVars
  /\ UNCHANGED <<now, envMinProfit, totalScans, scanPc, scanIdx, newOpps,
                 opportunities, nextId, lastDetect, handed, botQueue>>

\* the clock advances
Advance ==
  /\ now + TickMs <= MaxTime
  /\ now' = now + TickMs
  /\ UNCHANGED nonDetVars
  /\ UNCHANGED <<prices, updates, envMinProfit, totalScans, scanPc, scanIdx,
                 newOpps, opportunities, nextId, lastDetect, handed, botQueue>>

\* scanForOpportunities starts
ScanBegin ==
  /\ scanPc = "idle"
  /\ totalScans < MaxScans
  /\ totalScans' = totalScans + 1
  /\ newOpps' = <<>>
  /\ scanPc' = "simple"
  /\ scanIdx' = 1
  /\ UNCHANGED nonDetVars
  /\ UNCHANGED <<prices, updates, now, envMinProfit, opportunities, nextId,
                 lastDetect, handed, botQueue>>

\* the candidate of a pair, if any, joins newOpportunities
ScanSimpleStore(opp) ==
  /\ newOpps' = IF opp = NoOpp THEN newOpps ELSE Append(newOpps, opp)
  /\ nextId' = IF opp = NoOpp THEN nextId ELSE nextId + 1

\* a scan that gives up at the first pair without a candidate
AfterPairAbortingOnNull(idx, opp) ==
  IF opp = NoOpp THEN <<"idle", 1>>
  ELSE IF idx < Len(TOKEN_PAIRS) THEN <<"simple", idx + 1>>
  ELSE <<"triangular", 1>>

\* where the scan stands after pair idx has yielded opp (null included): at
\* the next pair, or at detectTriangularArbitrage after the last one
AfterPair(idx, opp) ==
  IF idx < Len(TOKEN_PAIRS) THEN <<"simple", idx + 1>> ELSE <<"triangular", 1>>

ScanSimpleStep(opp) ==
  /\ ScanSimpleStore(opp)
  /\ scanPc' = AfterPair(scanIdx, opp)[1]
  /\ scanIdx' = AfterPair(scanIdx, opp)[2]

\* one iteration of the loop over TOKEN_PAIRS
ScanSimple(gas) ==
  /\ scanPc = "simple"
  /\ ScanSimpleStep(detectSimpleArbitrage(prices, TOKEN_PAIRS[scanIdx][1],
                                          TOKEN_PAIRS[scanIdx][2], gas, now, nextId,
                                          envMinProfit))
  /\ UNCHANGED nonDetVars
  /\ UNCHANGED <<prices, updates, now, envMinProfit, totalScans, opportunities,
                 lastDetect, handed, botQueue>>

\* the filter by minimum profit of scanForOpportunities
ProfitableOpportunities(opps, env) ==
  SelectSeq(opps, LAMBDA o : o.expectedProfit >= ScanMinProfitUSD(env))

\* all three legs of the path have a best price
HasLegs(m, path) ==
  /\ getBestPrice(m, path[1], path[2]).price # NoObs
  /\ getBestPrice(m, path[2], path[3]).price # NoObs
  /\ getBestPrice(m, path[3], path[1]).price # NoObs

\* the first path from index i on that gets as far as the gas price call; the
\* paths before it return null without awaiting anything
FirstPathWithLegs(m, i) ==
  LET js == {j \in i..Len(TriangularPaths) : HasLegs(m, TriangularPaths[j])}
  IN  IF js = {} THEN Len(TriangularPaths) + 1
      ELSE CHOOSE j \in js : \A k \in js : j <= k

\* the candidate of path j, if any, joins newOpportunities; after the last
\* path the candidates of the scan are filtered by minimum profit
ScanTriangularStore(j, found) ==
  /\ nextId' = nextId + (Len(found) - Len(newOpps))
  /\ IF j < Len(TriangularPaths)
     THEN /\ scanIdx' = j + 1
          /\ scanPc' = scanPc
          /\ newOpps' = found
     ELSE /\ scanIdx' = 1
          /\ scanPc' = "commit"
          /\ newOpps' = ProfitableOpportunities(found, envMinProfit)

ScanTriangularPath(j, opp) ==
  ScanTriangularStore(j, IF opp = NoOpp THEN newOpps ELSE Append(newOpps, opp))

ScanTriangularAt(j, gas) ==
  ScanTriangularPath(j, IF j > Len(TriangularPaths) THEN NoOpp
                        ELSE detectTriangularPath(prices, TriangularPaths[j], gas, now,
                                                  nextId, envMinProfit))

\* detectTriangularArbitrage up to and including the next path that awaits the
\* gas price
ScanTriangular(gas) ==
  /\ scanPc = "triangular"
  /\ ScanTriangularAt(FirstPathWithLegs(prices, scanIdx), gas)
  /\ UNCHANGED nonDetVars
  /\ UNCHANGED <<prices, updates, now, envMinProfit, totalScans, opportunities,
                 lastDetect, handed, botQueue>>

\* Map.prototype.set on the opportunities map
OppSet(map, key, opp) ==
  [k \in DOMAIN map \cup {key} |-> IF k = key THEN opp ELSE map[k]]

\* what the opportunity store holds as handed to it after
\* saveOpportunityToDatabase(opp): a rejected upsert is caught and null
\* returned
saveOpportunityToDatabase(before, opp, saved) ==
  IF saved THEN DetectorDbOpportunity(opp) ELSE before

\* a scan that a rejected save ends
AfterSaveThrowing(idx, saved) == IF saved THEN <<"commit", idx + 1>> ELSE <<"idle", 1>>

\* where the scan stands after the save of opportunity idx has returned
\* (a document, or null for a caught failure): at the next opportunity
AfterSave(idx, saved) == <<"commit", idx + 1>>

\* one iteration of the loop over profitableOpportunities: store in the map,
\* save to the database, notify the subscribers
ScanCommit(saved) ==
  /\ scanPc = "commit"
  /\ scanIdx <= Len(newOpps)
  /\ LET opp == newOpps[scanIdx]
     IN  /\ opportunities' = OppSet(opportunities, getOpportunityKey(opp), opp)
         /\ handed' = saveOpportunityToDatabase(handed, opp, saved)
         /\ botQueue' = Append(botQueue, opp)
  /\ scanPc' = AfterSave(scanIdx, saved)[1]
  /\ scanIdx' = AfterSave(scanIdx, saved)[2]
  /\ UNCHANGED nonDetVars
  /\ UNCHANGED <<prices, updates, now, envMinProfit, totalScans, newOpps,
                 nextId, lastDetect>>

\* cleanupOpportunities that deletes nothing
cleanupOpportunitiesKeepingAll(map, t) == map

\* cleanupOpportunities(5): drop the entries older than maxAge
cleanupOpportunities(map, t) ==
  LET keep == {k \in DOMAIN map : ~(t - map[k].timestamp > 5 * 60 * 1000)}
  IN  [k \in keep |-> map[k]]

\* the end of scanForOpportunities
ScanFinish ==
  /\ scanPc = "commit"
  /\ scanIdx > Len(newOpps)
  /\ opportunities' = cleanupOpportunities(opportunities, now)
  /\ scanPc' = "idle"
  /\ scanIdx' = 1
  /\ newOpps' = <<>>
  /\ lastScan' = now
  /\ UNCHANGED <<profVars, simVars, botVars, pxVars, normVars, routeVars, rpcVars, auxVars>>
  /\ UNCHANGED <<prices, updates, now, envMinProfit, totalScans, nextId,
                 lastDetect, handed, botQueue>>

NoStatusUpdate == [called |-> FALSE]

\* the additionalData objects a caller passes: none, or a simulation result
StatusData == {<<>>, [simulatedProfit |-> 5]}

\* Object.assign(opportunity, additionalData) after opportunity.status = status
AssignStatus(opportunity, status, additionalData) ==
  [f \in DOMAIN opportunity \cup DOMAIN additionalData |->
     IF f \in DOMAIN additionalData THEN additionalData[f]
     ELSE IF f = "status" THEN status ELSE opportunity[f]]

\* updateOpportunityStatus: this.opportunities.get(opportunityId), and the
\* update only if the Map holds that key
updateOpportunityStatus(map, opportunityId, status, additionalData) ==
  IF opportunityId \in DOMAIN map
  THEN [map EXCEPT ![opportunityId] = AssignStatus(@, status, additionalData)]
  ELSE map

\* the Map key a generated id makes: nine characters of [0-9a-z], which no
\* key getOpportunityKey builds ('simple:...', 'triangular:...') equals
IdKey(id) == <<"id", id>>

\* a call of updateOpportunityStatus with the id of a stored opportunity
CallUpdateOpportunityStatus(id, status, additionalData) ==
  /\ statusUpdate = NoStatusUpdate
  /\ \E k \in DOMAIN opportunities : opportunities[k].id = id
  /\ statusUpdate' = [called |-> TRUE, opportunityId |-> id, status |-> status,
                      additionalData |-> additionalData, before |-> opportunities]
  /\ opportunities' =
       updateOpportunityStatus(opportunities, IdKey(id), status, additionalData)
  /\ UNCHANGED <<profVars, simVars, botVars, pxVars, normVars, routeVars, rpcVars, lastScan,
                 cacheClears, lifeVars, lastMark, oppDb>>
  /\ UNCHANGED <<prices, updates, now, envMinProfit, totalScans, scanPc, scanIdx,
                 newOpps, nextId, lastDetect, handed, botQueue>>

\* ArbitrageBot.handleNewOpportunity up to saveOpportunityToDatabase; without
\* a database connection nothing is handed to the store
BotSaveOpportunity(dbConnected) ==
  /\ botQueue # <<>>
  /\ handed' = IF dbConnected THEN BotOpportunityData(Head(botQueue)) ELSE handed
  /\ botQueue' = Tail(botQueue)
  /\ UNCHANGED nonDetVars
  /\ UNCHANGED <<prices, updates, now, envMinProfit, totalScans, scanPc, scanIdx,
                 newOpps, opportunities, nextId, lastDetect>>

(***************************************************************************)
(* The detector running against the price fetcher                          *)
(***************************************************************************)
NoDetect == [kind |-> "none", tokenA |-> "", tokenB |-> "", rel |-> <<>>,
             legs |-> <<>>, gas |-> 0, result |-> NoOpp]

\* the profit calculator after construction, before any call
NoProfit == [kind |-> "none"]

\* no refresh of the gas price and no calculateGasCost call so far
NoGasLog ==
  [initialized |-> FALSE, refreshed |-> FALSE, outcome |-> 0, before |-> 0,
   called |-> FALSE, calledInitialized |-> FALSE, gasPrice |-> 0, gasLimit |-> 0,
   caught |-> FALSE, gasCost |-> 0]

ProfIdle ==
  /\ gasPriceCache = 0
  /\ lastProfit = NoProfit
  /\ gasLog = NoGasLog

\* the callers of the trade simulator
Callers == {1, 2}

NoResult == [type |-> "none"]

IdleCall == [pc |-> "idle"]

\* the price fetcher's history and its update calls after construction
PxIdle ==
  /\ priceHistory = << >>
  /\ priceCalls = << >>
  /\ chainHead = 0
  /\ priceWrites = << >>
  /\ priceLimit = 0

\* ArbitrageBot after construction: no opportunity handled, nothing stored
NoExecute == [n |-> 0]

BotIdle ==
  /\ enableTradeExecution = FALSE
  /\ botCall = IdleCall
  /\ botStats = [totalOpportunities |-> 0, profitableOpportunities |-> 0,
                 simulatedTrades |-> 0, errors |-> 0]
  /\ botStore = << >>
  /\ rpcInvoked = {}
  /\ lastExecute = NoExecute

\* the simulate route before any request; no document stored
RouteIdle ==
  /\ apiStore = << >>
  /\ apiReqs = << >>
  /\ apiSims = 0

\* the RPC manager before initialize
RpcIdle ==
  /\ rpcInit = IdleCall
  /\ rpcProviders = << >>
  /\ rpcCurrent = 0
  /\ rpcExec = IdleCall
  /\ rpcExecs = 0

\* the services after construction, no lifecycle call made; and what the
\* calls of updateOpportunityStatus and clearCache record
AuxIdle ==
  /\ oppDb = [log |-> <<>>, simulated |-> <<>>]
  /\ lastMark = [n |-> 0]
  /\ botLife = [isRunning |-> FALSE, isShuttingDown |-> FALSE, services |-> FALSE,
                start |-> "idle", stop |-> "idle", starts |-> 0, stops |-> 0]
  /\ scheduled = {}
  /\ svc = [s \in {"detector", "fetcher"} |->
             [isRunning |-> FALSE, interval |-> <<"none", 0>>, starting |-> 0, cycles |-> 0]]
  /\ timers = {}
  /\ timerSeq = 0
  /\ lifeCall = [op |-> "none"]
  /\ cacheClears = 0
  /\ statusUpdate = [called |-> FALSE]

SvcIdle ==
  /\ RouteIdle
  /\ RpcIdle
  /\ lastScan = -1
  /\ AuxIdle

\* the trade simulator after construction, no call issued
SimIdle ==
  /\ simulationCache = << >>
  /\ cacheHits = 0
  /\ cacheRequests = 0
  /\ simCalls = [c \in Callers |-> IdleCall]

DetInit ==
  /\ ProfIdle
  /\ SimIdle
  /\ BotIdle
  /\ PxIdle
  /\ normCall = [kind |-> "none"]
  /\ SvcIdle
  /\ prices = <<>>
  /\ updates = 0
  /\ now = 0
  /\ envMinProfit \in EnvMinProfitValues
  /\ totalScans = 0
  /\ scanPc = "idle"
  /\ scanIdx = 1
  /\ newOpps = <<>>
  /\ opportunities = << >>
  /\ nextId = 1
  /\ lastDetect = NoDetect
  /\ handed = NoRecord
  /\ botQueue = <<>>

DetNext ==
  \/ \E key \in V3Pools, p \in PriceTicks : updatePriceV3(key, p)
  \/ \E pair \in V2Pools, p \in PriceTicks : updatePriceV2(pair, p)
  \/ Advance
  \/ ScanBegin
  \/ \E gas \in GasOutcomes : ScanSimple(gas)
  \/ \E gas \in GasOutcomes : ScanTriangular(gas)
  \/ \E saved \in BOOLEAN : ScanCommit(saved)
  \/ ScanFinish
  \/ \E dbConnected \in BOOLEAN : BotSaveOpportunity(dbConnected)

\* the ids callers of updateOpportunityStatus pass
MaxStatusId == 4

\* the detector with callers of updateOpportunityStatus, up to the first call
StatusNext ==
  \/ (statusUpdate = NoStatusUpdate /\ DetNext)
  \/ \E id \in 1..MaxStatusId, status \in {"simulated", "executed"}, data \in StatusData :
       CallUpdateOpportunityStatus(id, status, data)

(***************************************************************************)
(* The detect functions on arbitrary contents of the price cache           *)
(***************************************************************************)
MaxCache == 3

\* observations a cache may hold: venue, tokens as stored, fee tier and the
\* prices in thousandths the entry may carry
CacheEntries ==
  { <<"UNISWAP_V3", "USDT", "WETH", 3000, {0, 1000, 1004, 1057}>>,
    <<"UNISWAP_V3", "WETH", "USDT", 3000, {900}>>,
    <<"SUSHISWAP_V2", "USDT", "WETH", 3000, {1000, 1100}>>,
    <<"UNISWAP_V3", "WETH", "WBTC", 3000, {2000}>>,
    <<"UNISWAP_V3", "WBTC", "USDT", 3000, {500, 1100}>>,
    <<"SUSHISWAP_V3", "WBTC", "USDT", 500, {1000}>> }

CacheObs ==
  UNION { { [dex |-> e[1], tokenA |-> e[2], tokenB |-> e[3], feeTier |-> e[4],
             price |-> Tick(p)] : p \in e[5] } : e \in CacheEntries }

\* the caches of at most MaxCache entries, one entry per key
Caches(maxLen) ==
  { m \in UNION { [1..n -> CacheObs] : n \in 0..maxLen } :
      \A i, j \in 1..Len(m) : i # j => ObsKey(m[i]) # ObsKey(m[j]) }

\* the price of a leg as detectTriangularPath reads it, 0 when there is none
LegPrice(m, tokenA, tokenB) ==
  LET best == getBestPrice(m, tokenA, tokenB)
  IN  IF best.price = NoObs THEN 0 ELSE best.price.price

\* a call of detectSimpleArbitrage(tokenA, tokenB)
CallDetectSimple(i, gas) ==
  /\ lastDetect = NoDetect
  /\ lastDetect' =
       [kind |-> "simple", tokenA |-> TOKEN_PAIRS[i][1], tokenB |-> TOKEN_PAIRS[i][2],
        rel |-> RelevantPrices(prices, TOKEN_PAIRS[i][1], TOKEN_PAIRS[i][2]),
        legs |-> <<>>, gas |-> gas,
        result |-> detectSimpleArbitrage(prices, TOKEN_PAIRS[i][1], TOKEN_PAIRS[i][2],
                                         gas, now, nextId, envMinProfit)]
  /\ UNCHANGED nonDetVars
  /\ UNCHANGED <<prices, updates, now, envMinProfit, totalScans, scanPc, scanIdx,
                 newOpps, opportunities, nextId, handed, botQueue>>

\* a call of detectTriangularPath(path)
CallDetectTriangular(j, gas) ==
  /\ lastDetect = NoDetect
  /\ lastDetect' =
       [kind |-> "triangular", tokenA |-> TriangularPaths[j][1],
        tokenB |-> TriangularPaths[j][2], rel |-> <<>>,
        legs |-> << LegPrice(prices, TriangularPaths[j][1], TriangularPaths[j][2]),
                    LegPrice(prices, TriangularPaths[j][2], TriangularPaths[j][3]),
                    LegPrice(prices, TriangularPaths[j][3], TriangularPaths[j][1]) >>,
        gas |-> gas,
        result |-> detectTriangularPath(prices, TriangularPaths[j], gas, now, nextId,
                                        envMinProfit)]
  /\ UNCHANGED nonDetVars
  /\ UNCHANGED <<prices, updates, now, envMinProfit, totalScans, scanPc, scanIdx,
                 newOpps, opportunities, nextId, handed, botQueue>>

FnInit ==
  /\ ProfIdle
  /\ SimIdle
  /\ BotIdle
  /\ PxIdle
  /\ normCall = [kind |-> "none"]
  /\ SvcIdle
  /\ prices \in Caches(MaxCache)
  /\ updates = 0
  /\ now = 0
  /\ envMinProfit \in EnvMinProfitValues
  /\ totalScans = 0
  /\ scanPc = "idle"
  /\ scanIdx = 1
  /\ newOpps = <<>>
  /\ opportunities = << >>
  /\ nextId = 1
  /\ lastDetect = NoDetect
  /\ handed = NoRecord
  /\ botQueue = <<>>

FnNext ==
  \/ \E i \in 1..Len(TOKEN_PAIRS), gas \in GasOutcomes : CallDetectSimple(i, gas)
  \/ \E j \in 1..Len(TriangularPaths), gas \in GasOutcomes :
       CallDetectTriangular(j, gas)

(***************************************************************************)
(* The Opportunity collection under the two writers of a candidate: the    *)
(* detector's findOneAndUpdate({id}, ..., {upsert: true}) in               *)
(* scanForOpportunities, and the insert of `new Opportunity(data).save()`  *)
(* in the bot's handler, which notifySubscribers calls with the same       *)
(* candidate.  The schema declares id unique; whether MongoDB holds the    *)
(* index when the insert arrives is the environment's.                     *)
(***************************************************************************)
\* the writes of writer that changed the collection for id
WritesOf(db, id, writer) ==
  {i \in DOMAIN db.log : /\ db.log[i].id = id
                         /\ db.log[i].writer = writer
                         /\ db.log[i].outcome \in {"inserted", "updated"}}

\* a document of that id is in the collection
Stored(db, id) == \E i \in DOMAIN db.log : db.log[i].id = id /\ db.log[i].outcome = "inserted"

\* findOneAndUpdate with upsert: inserts, or updates the document of that id
UpsertOutcome(db, id, saved) ==
  IF ~saved THEN "failed" ELSE IF Stored(db, id) THEN "updated" ELSE "inserted"

\* save() of a new document: E11000 when the unique index holds the id
InsertOutcome(db, id, ok, indexed) ==
  IF ~ok THEN "failed"
  ELSE IF Stored(db, id) /\ indexed THEN "duplicate" ELSE "inserted"

Logged(db, id, writer, outcome) ==
  [db EXCEPT !.log = Append(@, [id |-> id, writer |-> writer, outcome |-> outcome])]

\* ScanCommit with the collection: the upsert of the detector
StoreScanCommit(saved) ==
  /\ scanPc = "commit"
  /\ scanIdx <= Len(newOpps)
  /\ LET opp == newOpps[scanIdx]
     IN  /\ opportunities' = OppSet(opportunities, getOpportunityKey(opp), opp)
         /\ handed' = saveOpportunityToDatabase(handed, opp, saved)
         /\ botQueue' = Append(botQueue, opp)
         /\ oppDb' = Logged(oppDb, opp.id, "detector", UpsertOutcome(oppDb, opp.id, saved))
  /\ scanPc' = AfterSave(scanIdx, saved)[1]
  /\ scanIdx' = AfterSave(scanIdx, saved)[2]
  /\ UNCHANGED <<profVars, simVars, botVars, pxVars, normVars, routeVars, rpcVars,
                 lastScan, statusUpdate, cacheClears, lifeVars, lastMark>>
  /\ UNCHANGED <<prices, updates, now, envMinProfit, totalScans, newOpps,
                 nextId, lastDetect>>

\* what the bot's saveOpportunityToDatabase returns: the document it
\* inserted, or {id} when the save was rejected or there is no connection
ReturnsDocument(dbConnected, outcome) == dbConnected /\ outcome = "inserted"

\* the collection and the simulation after handleNewOpportunity(opp): the
\* insert, then simulateOpportunity(opportunityDoc) at or above the threshold
AfterHandle(db, opp, dbConnected, outcome, threshold) ==
  LET written == IF dbConnected THEN Logged(db, opp.id, "bot", outcome) ELSE db
  IN  IF opp.expectedProfit >= threshold
      THEN [written EXCEPT !.simulated =
              Append(@, [id |-> opp.id,
                         answered |-> dbConnected /\ outcome # "failed",
                         onDocument |-> ReturnsDocument(dbConnected, outcome)])]
      ELSE written

\* the subscriber of the detector: ArbitrageBot.handleNewOpportunity on the
\* candidate the scan has just notified
StoreHandleNewOpportunity(dbConnected, ok, indexed) ==
  /\ botQueue # <<>>
  /\ handed' = IF dbConnected THEN BotOpportunityData(Head(botQueue)) ELSE handed
  /\ botQueue' = Tail(botQueue)
  /\ oppDb' = AfterHandle(oppDb, Head(botQueue), dbConnected,
                          InsertOutcome(oppDb, Head(botQueue).id, ok, indexed),
                          MIN_PROFIT_THRESHOLD_USD(envMinProfit))
  /\ UNCHANGED <<profVars, simVars, botVars, pxVars, normVars, routeVars, rpcVars,
                 lastScan, statusUpdate, cacheClears, lifeVars, lastMark>>
  /\ UNCHANGED <<prices, updates, now, envMinProfit, totalScans, scanPc, scanIdx,
                 newOpps, opportunities, nextId, lastDetect>>

StoreNext ==
  \/ \E key \in V3Pools, p \in PriceTicks : updatePriceV3(key, p)
  \/ \E pair \in V2Pools, p \in PriceTicks : updatePriceV2(pair, p)
  \/ Advance
  \/ ScanBegin
  \/ \E gas \in GasOutcomes : ScanSimple(gas)
  \/ \E gas \in GasOutcomes : ScanTriangular(gas)
  \/ \E saved \in BOOLEAN : StoreScanCommit(saved)
  \/ ScanFinish
  \/ \E dbConnected \in BOOLEAN, ok \in BOOLEAN, indexed \in BOOLEAN :
       StoreHandleNewOpportunity(dbConnected, ok, indexed)

(***************************************************************************)
(* Properties of the detector running against the price fetcher (Spec)     *)
(***************************************************************************)
\* C2: every simple opportunity held in the opportunities map, and every
\* simple candidate a scan has collected, has an expected (net) profit of at
\* least MIN_PROFIT_THRESHOLD_USD and a spread of at least 0.5 percent: a
\* candidate below either bound was rejected by detectSimpleArbitrage.
SimpleWithinThresholds(opp) ==
  opp.type = "simple" =>
    /\ opp.expectedProfit >= MIN_PROFIT_THRESHOLD_USD(envMinProfit)
    /\ opp.priceDifferencePercent >= BNDec(5, 1)
    /\ 200 * (opp.sellPrice - opp.buyPrice) >= opp.buyPrice

C2_SimpleMeetsThresholds ==
  /\ \A k \in DOMAIN opportunities : SimpleWithinThresholds(opportunities[k])
  /\ \A i \in 1..Len(newOpps) : SimpleWithinThresholds(newOpps[i])

\* a scan has finished and left a simple opportunity in the map
C2_Witness ==
  /\ totalScans >= 1
  /\ scanPc = "idle"
  /\ \E k \in DOMAIN opportunities : opportunities[k].type = "simple"
  /\ Len(RelevantPrices(prices, "USDT", "WETH")) >= 2

\* C5: every record handed to the opportunity store, by either write path,
\* satisfies netProfitUSD = grossProfitUSD - totalFeesUSD and
\* totalFeesUSD = swapFeesUSD + gasCostUSD.
C5_RecordConsistent ==
  handed # NoRecord =>
    /\ handed.netProfitUSD = handed.grossProfitUSD - handed.totalFeesUSD
    /\ handed.totalFeesUSD = handed.swapFeesUSD + handed.gasCostUSD

\* the keys of the entries older than maxAge at time t
OlderThanMaxAge(map, t) == {k \in DOMAIN map : t - map[k].timestamp > 300000}

\* the count cleanupOpportunities returns: one per entry deleted
cleaned(map, t) ==
  Cardinality(DOMAIN map) - Cardinality(DOMAIN cleanupOpportunities(map, t))

\* C24: the step that completes a scan leaves in the opportunities map no
\* entry older than 5 minutes: it removes exactly the entries older than
\* maxAge, their number is the count cleanupOpportunities returns, and the
\* younger entries stay as they were.
C24_ScanEndsWithNoStaleOpportunity ==
  [][(scanPc = "commit" /\ scanPc' = "idle") =>
       /\ \A k \in DOMAIN opportunities' : now' - opportunities'[k].timestamp <= 300000
       /\ DOMAIN opportunities' = DOMAIN opportunities \ OlderThanMaxAge(opportunities, now)
       /\ \A k \in DOMAIN opportunities' : opportunities'[k] = opportunities[k]
       /\ cleaned(opportunities, now) = Cardinality(OlderThanMaxAge(opportunities, now))]_vars

\* a second scan has completed 400 s after an opportunity was stored, and the
\* map is empty
C24_Witness ==
  /\ scanPc = "idle"
  /\ totalScans = 2
  /\ handed # NoRecord
  /\ now = 400000
  /\ DOMAIN opportunities = {}

\* the position of the running scan
ScanPosition == <<scanPc, scanIdx>>

\* C25: whatever a pair or a path yields (no candidate, or a candidate
\* priced with the default gas cost after a failed gas-price fetch), the
\* scan goes on to the next pair, then through the paths in order, then to
\* the commit loop; it ends only by the step that runs the cleanup and sets
\* lastScan.
C25_FailedCandidateDoesNotAbortScan ==
  [][/\ (scanPc = "simple" /\ ScanPosition' # ScanPosition) =>
          ScanPosition' = IF scanIdx < Len(TOKEN_PAIRS) THEN <<"simple", scanIdx + 1>>
                          ELSE <<"triangular", 1>>
     /\ (scanPc = "triangular" /\ ScanPosition' # ScanPosition) =>
          \/ (scanPc' = "triangular" /\ scanIdx' > scanIdx
                /\ scanIdx' <= Len(TriangularPaths))
          \/ ScanPosition' = <<"commit", 1>>
     /\ (scanPc # "idle" /\ scanPc' = "idle") =>
          /\ scanPc = "commit"
          /\ lastScan' = now
          /\ opportunities' = cleanupOpportunities(opportunities, now)]_vars

\* a scan has completed although the gas-price fetch failed for a pair: the
\* map holds a simple opportunity priced with the default gas cost of $10
C25_Witness ==
  /\ scanPc = "idle"
  /\ lastScan = now
  /\ \E k \in DOMAIN opportunities :
       /\ opportunities[k].type = "simple"
       /\ opportunities[k].gasCost = BN(10)

\* C26: a rejected save is not fatal to the scan: the step of the commit
\* loop stores the opportunity in the in-memory map and notifies the
\* subscribers whether or not the store took the record, goes on to the
\* next opportunity, and scans are started again afterwards.
C26_StoreFailureIsNotFatal ==
  [][(scanPc = "commit" /\ scanIdx <= Len(newOpps) /\ ScanPosition' # ScanPosition) =>
       /\ ScanPosition' = <<"commit", scanIdx + 1>>
       /\ getOpportunityKey(newOpps[scanIdx]) \in DOMAIN opportunities'
       /\ opportunities'[getOpportunityKey(newOpps[scanIdx])] = newOpps[scanIdx]
       /\ botQueue' = Append(botQueue, newOpps[scanIdx])
       /\ handed' \in {handed, DetectorDbOpportunity(newOpps[scanIdx])}]_vars

\* a second scan is running after a scan whose saves were all rejected: the
\* store has been handed nothing, the map holds an opportunity and the
\* subscribers were notified of it
C26_Witness ==
  /\ totalScans = 2
  /\ lastScan # -1
  /\ handed = NoRecord
  /\ DOMAIN opportunities # {}
  /\ botQueue # <<>>

\* C32: updateOpportunityStatus(opportunityId, status, data), called with the
\* id of an opportunity scanForOpportunities has put in the opportunities
\* map, sets the status of that opportunity and merges data into it, and
\* leaves every other stored opportunity as it was.
C32_StatusUpdatedInPlace ==
  statusUpdate.called =>
    /\ DOMAIN opportunities = DOMAIN statusUpdate.before
    /\ \A k \in DOMAIN opportunities :
         IF statusUpdate.before[k].id = statusUpdate.opportunityId
         THEN opportunities[k] = AssignStatus(statusUpdate.before[k], statusUpdate.status,
                                              statusUpdate.additionalData)
         ELSE opportunities[k] = statusUpdate.before[k]

\* C32, the part the code keeps: no stored opportunity other than the one
\* named is changed
OtherOpportunitiesUnchanged ==
  statusUpdate.called =>
    /\ DOMAIN opportunities = DOMAIN statusUpdate.before
    /\ \A k \in DOMAIN opportunities :
         statusUpdate.before[k].id # statusUpdate.opportunityId =>
           opportunities[k] = statusUpdate.before[k]

\* the ids that reached the collection or the simulator
StoreIds == {oppDb.log[i].id : i \in DOMAIN oppDb.log}

\* C40: a candidate is written to the collection once: the detector's upsert
\* and the bot's insert never both write the same id, and a stored candidate
\* is simulated on its document whenever the database answered the bot's save.
C40_CandidateStoredOnce ==
  /\ \A id \in StoreIds :
       /\ WritesOf(oppDb, id, "detector") = {} \/ WritesOf(oppDb, id, "bot") = {}
       /\ Cardinality(WritesOf(oppDb, id, "detector") \cup WritesOf(oppDb, id, "bot")) <= 1
  /\ \A i \in DOMAIN oppDb.simulated :
       Stored(oppDb, oppDb.simulated[i].id) /\ oppDb.simulated[i].answered
         => oppDb.simulated[i].onDocument

(***************************************************************************)
(* Profit calculator                                                       *)
(***************************************************************************)
GAS_LIMITS_SINGLE_SWAP == 150000

GAS_LIMITS_TRIANGULAR_SWAP == 450000

GAS_BUFFER_PERCENTAGE == 20

\* a decimal shifted by k places: times 10^k, truncated when k is negative
RECURSIVE ShiftDecimal(_, _)
ShiftDecimal(x, k) ==
  IF k = 0 THEN x
  ELSE IF k > 0 THEN ShiftDecimal(x * 10, k - 1)
  ELSE ShiftDecimal(TruncDiv(x, 10), k + 1)

\* HelperUtils.parseTokenAmount: amount * 10^decimals, kept as mantissa m and
\* exponent e
parseTokenAmount(amount, dec) == [m |-> amount, e |-> dec]

\* HelperUtils.formatTokenAmount: amount / 10^decimals
formatTokenAmount(amount, dec) == ShiftDecimal(amount.m, amount.e - dec)

\* calculateOutputAmount, and multipliedBy on a base-unit amount
calculateOutputAmount(amountIn, price) ==
  [m |-> multipliedBy(amountIn.m, price), e |-> amountIn.e]

\* plus and minus on base-unit amounts of one scale
AmountPlus(a, b) == [m |-> a.m + b.m, e |-> a.e]

AmountMinus(a, b) == [m |-> a.m - b.m, e |-> a.e]

\* HelperUtils.getGasPriceWithBuffer
getGasPriceWithBuffer(baseGasPrice, bufferPercentage) ==
  multipliedBy(baseGasPrice, dividedBy(BN(100 + bufferPercentage), BN(100)))

\* calculateGasCost: reading gasPrice of a missing cache throws, caught as $10
calculateGasCost(cache, gasLimit) ==
  IF cache = 0 THEN BN(10)
  ELSE getGasPriceWithBuffer(multipliedBy(fromWei(cache * gasLimit), BN(2000)),
                             GAS_BUFFER_PERCENTAGE)

\* calculateSimpleArbitrageProfit from the USD figures on
SimpleProfitResult(tradeAmount, amountIn, netOutput, inputUSD, outputUSD, swapFeesUSD, gasCost, env) ==
  LET grossProfit == outputUSD - inputUSD
      totalFeesUSD == swapFeesUSD + gasCost
      netProfit == grossProfit - totalFeesUSD
  IN  [kind |-> "simple", tradeAmount |-> tradeAmount, amountIn |-> amountIn,
       amountOutExpected |-> netOutput, grossProfit |-> grossProfit,
       netProfit |-> netProfit, swapFees |-> swapFeesUSD, gasCost |-> gasCost,
       totalFees |-> totalFeesUSD,
       isProfitable |-> netProfit > MIN_PROFIT_THRESHOLD_USD(env),
       meetsThreshold |-> netProfit > MIN_PROFIT_THRESHOLD_USD(env)]

\* calculateSimpleArbitrageProfit from the two swap fees on
SimpleProfitFromFees(tradeAmount, amountIn, amountOutExpected, swapFeeBuy, swapFeeSell, decA, decB, gasCost, env) ==
  SimpleProfitResult(tradeAmount, amountIn, AmountMinus(amountOutExpected, swapFeeSell),
                     formatTokenAmount(amountIn, decA),
                     formatTokenAmount(AmountMinus(amountOutExpected, swapFeeSell), decB),
                     formatTokenAmount(AmountPlus(swapFeeBuy, swapFeeSell), decA),
                     gasCost, env)

SimpleProfitFromAmounts(tradeAmount, amountIn, amountOutExpected, decA, decB, gasCost, env) ==
  SimpleProfitFromFees(tradeAmount, amountIn, amountOutExpected,
                       calculateOutputAmount(amountIn, BNDec(3, 3)),
                       calculateOutputAmount(amountOutExpected, BNDec(3, 3)),
                       decA, decB, gasCost, env)

\* calculateSimpleArbitrageProfit(opportunity, tradeAmount)
calculateSimpleArbitrageProfit(tokenA, tokenB, buyPrice, tradeAmount, cache, env) ==
  SimpleProfitFromAmounts(tradeAmount, parseTokenAmount(tradeAmount, decimals(tokenA)),
    calculateOutputAmount(parseTokenAmount(tradeAmount, decimals(tokenA)), buyPrice),
    decimals(tokenA), decimals(tokenB),
    calculateGasCost(cache, GAS_LIMITS_SINGLE_SWAP), env)

\* one leg of the loop of calculateTriangularArbitrageProfit
RECURSIVE TriangularLegs(_, _, _, _)
TriangularLegs(trades, i, currentAmount, totalSwapFees) ==
  IF i > Len(trades) THEN [currentAmount |-> currentAmount, totalSwapFees |-> totalSwapFees]
  ELSE TriangularLegs(trades, i + 1,
         AmountMinus(calculateOutputAmount(currentAmount, trades[i].price),
                     calculateOutputAmount(currentAmount, BNDec(3, 3))),
         totalSwapFees
           + formatTokenAmount(calculateOutputAmount(currentAmount, BNDec(3, 3)),
                               decimals(trades[i].token)))

\* calculateTriangularArbitrageProfit after the loop over the trades
TriangularProfitResult(path, tradeAmount, legs, gasCost, env) ==
  LET finalAmountUSD == formatTokenAmount(legs.currentAmount, decimals(path[1]))
      grossProfit == finalAmountUSD - tradeAmount
      totalFees == legs.totalSwapFees + gasCost
      netProfit == grossProfit - totalFees
  IN  [kind |-> "triangular", tradeAmount |-> tradeAmount, path |-> path,
       initialAmount |-> parseTokenAmount(tradeAmount, decimals(path[1])),
       finalAmount |-> legs.currentAmount, grossProfit |-> grossProfit,
       netProfit |-> netProfit, swapFees |-> legs.totalSwapFees,
       gasCost |-> gasCost, totalFees |-> totalFees,
       isProfitable |-> netProfit > MIN_PROFIT_THRESHOLD_USD(env),
       meetsThreshold |-> netProfit > MIN_PROFIT_THRESHOLD_USD(env)]

\* calculateTriangularArbitrageProfit(opportunity, tradeAmount); reading
\* trades.length of an opportunity without trades throws
calculateTriangularArbitrageProfit(path, hasTrades, trades, tradeAmount, cache, env) ==
  IF ~hasTrades THEN [kind |-> "threw"]
  ELSE TriangularProfitResult(path, tradeAmount,
         TriangularLegs(trades, 1, parseTokenAmount(tradeAmount, decimals(path[1])), 0),
         calculateGasCost(cache, GAS_LIMITS_TRIANGULAR_SWAP), env)

\* a refresh that drops the cache when the gas price call rejects
GasCacheAfterClearing(cache, outcome) ==
  IF outcome = -1 THEN 0
  ELSE IF outcome = 0 THEN DefaultGasPriceGwei
  ELSE outcome

\* the cache updateGasPrice leaves: outcome -1 the gas price call rejects, 0
\* feeData.gasPrice is missing, otherwise the gas price in gwei
GasCacheAfter(cache, outcome) ==
  IF outcome = -1
  THEN (IF cache = 0 THEN DefaultGasPriceGwei ELSE cache)
  ELSE IF outcome = 0 THEN DefaultGasPriceGwei
  ELSE outcome

\* updateGasPrice completing, called by the interval timer or by getGasPrice
updateGasPrice(outcome) ==
  /\ gasPriceCache' = GasCacheAfter(gasPriceCache, outcome)
  /\ gasLog' = [gasLog EXCEPT !.refreshed = TRUE, !.outcome = outcome,
                               !.before = gasPriceCache]
  /\ UNCHANGED lastProfit
  /\ UNCHANGED nonProfVars

\* initialize: awaits updateGasPrice, then starts the interval timer
initialize(outcome) ==
  /\ ~gasLog.initialized
  /\ gasPriceCache' = GasCacheAfter(gasPriceCache, outcome)
  /\ gasLog' = [gasLog EXCEPT !.initialized = TRUE, !.refreshed = TRUE,
                               !.outcome = outcome, !.before = gasPriceCache]
  /\ UNCHANGED lastProfit
  /\ UNCHANGED nonProfVars

\* getGasPrice: the cache, fresh or not (a stale cache only triggers a
\* refresh that completes later); 0 stands for null
getGasPrice(cache) == cache

\* a call of calculateGasCost(gasLimit)
CallCalculateGasCost(gasLimit) ==
  /\ gasLog' = [gasLog EXCEPT !.called = TRUE,
                               !.calledInitialized = gasLog.initialized,
                               !.gasPrice = getGasPrice(gasPriceCache),
                               !.gasLimit = gasLimit,
                               !.caught = (getGasPrice(gasPriceCache) = 0),
                               !.gasCost = calculateGasCost(gasPriceCache, gasLimit)]
  /\ UNCHANGED <<gasPriceCache, lastProfit>>
  /\ UNCHANGED nonProfVars

\* the inputs of the profit calculator
ProfitPrices == {Tick(1000), Tick(1057)}

ProfitTradeAmounts == {BN(100), BN(1000)}

ProfitPaths == { <<"USDC", "USDT", "WETH">>, <<"USDT", "WETH", "WBTC">> }

ProfitGasOutcomes == {-1, 0, 50}

\* the trades of a path at the given leg prices
TradesOf(path, legPrices) ==
  [i \in 1..3 |-> [token |-> path[i], toToken |-> path[(i % 3) + 1],
                   price |-> legPrices[i]]]

\* a call of calculateSimpleArbitrageProfit
CallSimpleProfit(i, buyPrice, tradeAmount) ==
  /\ lastProfit' =
       [kind |-> "simple", tokenA |-> TOKEN_PAIRS[i][1], tokenB |-> TOKEN_PAIRS[i][2],
        buyPrice |-> buyPrice, tradeAmount |-> tradeAmount,
        result |-> calculateSimpleArbitrageProfit(TOKEN_PAIRS[i][1], TOKEN_PAIRS[i][2],
                     buyPrice, tradeAmount, gasPriceCache, envMinProfit)]
  /\ UNCHANGED <<gasPriceCache, gasLog>>
  /\ UNCHANGED nonProfVars

\* a call of calculateTriangularArbitrageProfit
CallTriangularProfit(path, hasTrades, legPrices, tradeAmount) ==
  /\ lastProfit' =
       [kind |-> "triangular", path |-> path, hasTrades |-> hasTrades,
        legPrices |-> legPrices, tradeAmount |-> tradeAmount,
        result |-> calculateTriangularArbitrageProfit(path, hasTrades,
                     TradesOf(path, legPrices), tradeAmount, gasPriceCache,
                     envMinProfit)]
  /\ UNCHANGED <<gasPriceCache, gasLog>>
  /\ UNCHANGED nonProfVars

DetIdle ==
  /\ prices = <<>>
  /\ updates = 0
  /\ now = 0
  /\ totalScans = 0
  /\ scanPc = "idle"
  /\ scanIdx = 1
  /\ newOpps = <<>>
  /\ opportunities = << >>
  /\ nextId = 1
  /\ lastDetect = NoDetect
  /\ handed = NoRecord
  /\ botQueue = <<>>

ProfInit ==
  /\ DetIdle
  /\ SimIdle
  /\ BotIdle
  /\ PxIdle
  /\ normCall = [kind |-> "none"]
  /\ SvcIdle
  /\ envMinProfit \in EnvMinProfitValues
  /\ ProfIdle

\* the gas price cache alone: initialize, the refreshes and calculateGasCost
GasNext ==
  \/ \E outcome \in ProfitGasOutcomes : initialize(outcome)
  \/ \E outcome \in ProfitGasOutcomes : updateGasPrice(outcome)
  \/ \E gasLimit \in {GAS_LIMITS_SINGLE_SWAP, GAS_LIMITS_TRIANGULAR_SWAP} :
       CallCalculateGasCost(gasLimit)

ProfNext ==
  \/ \E outcome \in ProfitGasOutcomes : updateGasPrice(outcome)
  \/ \E i \in 1..Len(TOKEN_PAIRS), buyPrice \in ProfitPrices,
        tradeAmount \in ProfitTradeAmounts :
       CallSimpleProfit(i, buyPrice, tradeAmount)
  \/ \E path \in ProfitPaths, hasTrades \in BOOLEAN,
        legPrices \in [1..3 -> ProfitPrices], tradeAmount \in ProfitTradeAmounts :
       CallTriangularProfit(path, hasTrades, legPrices, tradeAmount)

(***************************************************************************)
(* ProfitCalculator.calculateOptimalTradeSize                              *)
(***************************************************************************)
\* process.env.MIN_TRADE_SIZE_USD || 100 and process.env.MAX_TRADE_SIZE_USD
\* || 10000, with neither variable set
DefaultMinTradeSizeUSD == 100

DefaultMaxTradeSizeUSD == 10000

\* testSizes
testSizes ==
  << BN(DefaultMinTradeSizeUSD), BN(500), BN(1000), BN(2500), BN(5000),
     BN(DefaultMaxTradeSizeUSD) >>

\* the result of the profit calculation the loop runs for one size
LadderResult(opp, size, cache, env) ==
  IF opp.type = "simple"
  THEN calculateSimpleArbitrageProfit(opp.tokenA, opp.tokenB, opp.buyPrice, size,
                                      cache, env)
  ELSE calculateTriangularArbitrageProfit(opp.path, opp.hasTrades,
                                          TradesOf(opp.path, opp.legPrices), size,
                                          cache, env)

\* the loop over testSizes from index i on: a size replaces the best one
\* only when its net profit is greater than the best profit so far
RECURSIVE OptimalFrom(_, _, _, _)
OptimalFrom(results, i, bestProfit, bestSize) ==
  IF i > Len(results)
  THEN [kind |-> "optimal", optimalSize |-> bestSize, expectedProfit |-> bestProfit]
  ELSE IF results[i].netProfit > bestProfit
  THEN OptimalFrom(results, i + 1, results[i].netProfit, testSizes[i])
  ELSE OptimalFrom(results, i + 1, bestProfit, bestSize)

\* calculateOptimalTradeSize given the results of the profit calculations; a
\* calculation that throws ends the loop in the catch block
OptimalOfResults(results) ==
  IF \E i \in 1..Len(results) : results[i].kind = "threw"
  THEN [kind |-> "optimal", optimalSize |-> BN(DefaultMinTradeSizeUSD),
        expectedProfit |-> 0]
  ELSE OptimalFrom(results, 1, 0, testSizes[1])

\* calculateOptimalTradeSize(opportunity)
calculateOptimalTradeSize(opp, cache, env) ==
  OptimalOfResults([i \in 1..Len(testSizes) |-> LadderResult(opp, testSizes[i], cache, env)])

\* the candidates handed to calculateOptimalTradeSize
SizeOpportunities ==
  { [type |-> "simple", tokenA |-> TOKEN_PAIRS[i][1], tokenB |-> TOKEN_PAIRS[i][2],
     buyPrice |-> p] : i \in 1..Len(TOKEN_PAIRS), p \in ProfitPrices }
  \cup
  { [type |-> "triangular", path |-> path, hasTrades |-> h, legPrices |-> lp] :
      path \in ProfitPaths, h \in BOOLEAN,
      lp \in { <<p, p, Tick(1000)>> : p \in ProfitPrices } }

\* a call of calculateOptimalTradeSize
CallOptimalTradeSize(opp) ==
  /\ lastProfit' =
       [kind |-> "optimal", opp |-> opp,
        results |-> [i \in 1..Len(testSizes) |->
                       LadderResult(opp, testSizes[i], gasPriceCache, envMinProfit)],
        result |-> calculateOptimalTradeSize(opp, gasPriceCache, envMinProfit)]
  /\ UNCHANGED <<gasPriceCache, gasLog>>
  /\ UNCHANGED nonProfVars

SizeNext ==
  \/ \E outcome \in ProfitGasOutcomes : updateGasPrice(outcome)
  \/ \E opp \in SizeOpportunities : CallOptimalTradeSize(opp)

\* C15: calculateOptimalTradeSize returns an optimalSize of the ladder
\* {min, 500, 1000, 2500, 5000, max} whose net profit is at least the net
\* profit at every other size of the ladder, and its expectedProfit is the
\* net profit computed at that size.
C15_OptimalSizeMaximisesNetProfit ==
  (lastProfit.kind = "optimal" /\ \A i \in 1..Len(testSizes) : lastProfit.results[i].kind # "threw") =>
    \E k \in 1..Len(testSizes) :
      /\ lastProfit.result.optimalSize = testSizes[k]
      /\ lastProfit.result.expectedProfit = lastProfit.results[k].netProfit
      /\ \A i \in 1..Len(testSizes) :
           lastProfit.results[i].netProfit <= lastProfit.results[k].netProfit

\* C4: in every result of calculateSimpleArbitrageProfit and of
\* calculateTriangularArbitrageProfit, totalFees = swapFees + gasCost and
\* netProfit = grossProfit - totalFees, and no fee is counted in grossProfit
\* as well: grossProfit is the value of the output before any fee less the
\* input, so that each fee is deducted from the net profit exactly once.
OutputBeforeFees(call) ==
  IF call.kind = "simple"
  THEN formatTokenAmount(
         calculateOutputAmount(parseTokenAmount(call.tradeAmount, decimals(call.tokenA)),
                               call.buyPrice),
         decimals(call.tokenB))
  ELSE multipliedBy(multipliedBy(multipliedBy(call.tradeAmount, call.legPrices[1]),
                                 call.legPrices[2]), call.legPrices[3])

C4_FeesDeductedOnce ==
  (lastProfit # NoProfit /\ lastProfit.result.kind # "threw") =>
    /\ lastProfit.result.totalFees = lastProfit.result.swapFees + lastProfit.result.gasCost
    /\ lastProfit.result.netProfit =
         lastProfit.result.grossProfit - lastProfit.result.totalFees
    /\ lastProfit.result.grossProfit = OutputBeforeFees(lastProfit) - lastProfit.tradeAmount

\* C30: calculateSimpleArbitrageProfit charges swap fees of notional *
\* feeRate * 2 (0.6% of the trade amount in USD), the amount the detector's
\* calculateSwapFees charges for the same notional, and
\* calculateTriangularArbitrageProfit charges notional * feeRate * 3.
C30_SwapFeesAreFeeRateTimesLegs ==
  (lastProfit # NoProfit /\ lastProfit.result.kind # "threw") =>
    /\ lastProfit.kind = "simple" =>
         /\ lastProfit.result.swapFees = multipliedBy(lastProfit.tradeAmount, BNDec(6, 3))
         /\ lastProfit.result.swapFees = calculateSwapFees(lastProfit.tradeAmount)
    /\ lastProfit.kind = "triangular" =>
         lastProfit.result.swapFees = multipliedBy(lastProfit.tradeAmount, BNDec(9, 3))

(***************************************************************************)
(* Trade simulator                                                         *)
(***************************************************************************)
cacheTimeout == 30000

SimTickMs == 15000

MaxSimTime == 45000

\* the venues pool discovery holds a pool of the medium fee tier for, and the
\* venues whose quoter address is configured
DiscoveredPoolDexes == {"UNISWAP_V3", "SUSHISWAP_V3", "PANCAKESWAP_V3"}

QuoterDexes == {"UNISWAP_V3", "SUSHISWAP_V3"}

\* poolDiscovery.getPool(dex, tokenA, tokenB, FEE_TIERS.MEDIUM) finds a pool
HasPool(dex) == dex \in DiscoveredPoolDexes

\* the opportunities handed to the simulator
SimOpportunities ==
  { [id |-> 1, type |-> "simple", tokenA |-> "USDT", tokenB |-> "WETH",
     buyDex |-> "UNISWAP_V3", sellDex |-> "SUSHISWAP_V3"],
    [id |-> 2, type |-> "simple", tokenA |-> "USDT", tokenB |-> "WETH",
     buyDex |-> "UNISWAP_V3", sellDex |-> "PANCAKESWAP_V3"],
    [id |-> 3, type |-> "simple", tokenA |-> "USDT", tokenB |-> "WETH",
     buyDex |-> "UNISWAP", sellDex |-> "SUSHISWAP"],
    [id |-> 4, type |-> "triangular", path |-> <<"USDT", "WETH", "WBTC">>,
     hasTrades |-> TRUE,
     trades |-> << [dex |-> "UNISWAP_V3", token |-> "USDT", toToken |-> "WETH"],
                   [dex |-> "SUSHISWAP_V3", token |-> "WETH", toToken |-> "WBTC"],
                   [dex |-> "UNISWAP_V3", token |-> "WBTC", toToken |-> "USDT"] >>],
    [id |-> 5, type |-> "triangular", path |-> <<"USDT", "WETH", "WBTC">>,
     hasTrades |-> FALSE, trades |-> <<>>] }

SimTradeAmounts == {BN(1000)}

\* slippagePercent of simulateWithSlippage; NoSlippage marks a plain simulate call
NoSlippage == -1

SlippagePercents == {NoSlippage, BNDec(5, 1)}

\* what a quote call returns: it fails, or it pays rate per unit and reports gas
QuoteOutcomes ==
  { [ok |-> FALSE, rate |-> 0, gas |-> 0],
    [ok |-> TRUE, rate |-> Tick(1004), gas |-> 150000],
    [ok |-> TRUE, rate |-> Tick(1100), gas |-> 100000] }

\* getCacheKey
getCacheKey(type, opportunityId, tradeAmount) == <<type, opportunityId, tradeAmount>>

getCachedResultNever(cache, key, t) == NoResult

\* a lookup that still serves an entry aged exactly cacheTimeout
getCachedResultInclusive(cache, key, t) ==
  IF key \in DOMAIN cache /\ t - cache[key].timestamp <= cacheTimeout
  THEN cache[key].result
  ELSE NoResult

\* cacheHits that counts every lookup
cacheHitsAfterCountingAll(hits, cache, key, t) == hits + 1

\* this.cacheHits after getCachedResult(key): one more when the entry is
\* returned
cacheHitsAfter(hits, cache, key, t) ==
  IF key \in DOMAIN cache /\ t - cache[key].timestamp < cacheTimeout THEN hits + 1
  ELSE hits

\* getCachedResult: the stored result while younger than cacheTimeout
getCachedResult(cache, key, t) ==
  IF key \in DOMAIN cache /\ t - cache[key].timestamp < cacheTimeout
  THEN cache[key].result
  ELSE NoResult

\* setCachedResult
setCachedResult(cache, key, result, t) ==
  [k \in DOMAIN cache \cup {key} |->
     IF k = key THEN [result |-> result, timestamp |-> t] ELSE cache[k]]

\* the legs of a simulation: venue, token in, token out
SimLegs(opp) ==
  IF opp.type = "simple"
  THEN << [dex |-> opp.buyDex, token |-> opp.tokenA, toToken |-> opp.tokenB],
          [dex |-> opp.sellDex, token |-> opp.tokenB, toToken |-> opp.tokenA] >>
  ELSE opp.trades

\* the token the trade amount is denominated in
SimBaseToken(opp) == IF opp.type = "simple" THEN opp.tokenA ELSE opp.path[1]

\* TradeSimulator.estimateGasCost: the gas price read without await is a
\* promise, so the default of 20 gwei applies; ETH at 2000 USD
simulatorEstimateGasCost(gasUsed) ==
  multipliedBy(fromWei(gasUsed * DefaultGasPriceGwei), BN(2000))

\* simulateSwap once the quote call has returned
simulateSwap(amountIn, tokenOut, outcome) ==
  IF outcome.ok
  THEN [success |-> TRUE, inputAmount |-> amountIn,
        outputAmount |-> [m |-> multipliedBy(amountIn.m, outcome.rate),
                          e |-> decimals(tokenOut)],
        gasUsed |-> outcome.gas]
  ELSE [success |-> FALSE, error |-> "quote call failed", inputAmount |-> amountIn,
        outputAmount |-> [m |-> 0, e |-> 0], gasUsed |-> 0]

\* the result returned from the catch block of a simulate function
SimFailure(type, error, t) ==
  [success |-> FALSE, error |-> error, type |-> type, timestamp |-> t]

\* what is thrown before the first leg: pools of a simple opportunity missing,
\* trades of a triangular opportunity missing; "" when nothing is thrown
SimPreError(opp) ==
  IF opp.type = "simple"
  THEN (IF HasPool(opp.buyDex) /\ HasPool(opp.sellDex) THEN ""
        ELSE "Pool information not available")
  ELSE (IF opp.hasTrades THEN ""
        ELSE "Cannot read properties of undefined (reading 'length')")

\* the message a failed leg is reported with
LegErrorPrefix(opp, i) ==
  IF opp.type = "simple"
  THEN (IF i = 1 THEN "Buy simulation failed: " ELSE "Sell simulation failed: ")
  ELSE "Swap simulation failed for leg: "

\* what stops leg i before its quote call is made; "" when the call is made
LegPreError(opp, i) ==
  IF opp.type = "triangular" /\ ~HasPool(SimLegs(opp)[i].dex) THEN "Pool not found"
  ELSE IF SimLegs(opp)[i].dex \notin QuoterDexes
  THEN LegErrorPrefix(opp, i) \o "Quoter not available"
  ELSE ""

LegInputInitial(call) ==
  parseTokenAmount(call.amount, decimals(SimBaseToken(call.opp)))

\* the amount passed into the next leg: the trade amount in base units for
\* the first leg, the output of the previous leg afterwards
LegInput(call) ==
  IF call.legs = <<>>
  THEN parseTokenAmount(call.amount, decimals(SimBaseToken(call.opp)))
  ELSE call.legs[Len(call.legs)].outputAmount

RECURSIVE SumGasCost(_, _)
SumGasCost(legs, i) ==
  IF i > Len(legs) THEN 0
  ELSE simulatorEstimateGasCost(legs[i].gasUsed) + SumGasCost(legs, i + 1)

RECURSIVE SumGasUsed(_, _)
SumGasUsed(legs, i) ==
  IF i > Len(legs) THEN 0 ELSE legs[i].gasUsed + SumGasUsed(legs, i + 1)

\* the swap entries of a success result
SwapEntries(opp, legs) ==
  [i \in 1..Len(legs) |->
     [dex |-> SimLegs(opp)[i].dex, inputAmount |-> legs[i].inputAmount,
      outputAmount |-> legs[i].outputAmount, gasUsed |-> legs[i].gasUsed,
      gasCost |-> simulatorEstimateGasCost(legs[i].gasUsed), success |-> TRUE]]

\* the result of a simulation whose legs all succeeded
SimSuccessFrom(opp, initialAmount, finalAmount, legs, totalGasCost, t) ==
  [success |-> TRUE, type |-> opp.type,
   initialAmount |-> initialAmount, finalAmount |-> finalAmount,
   profit |-> AmountMinus(finalAmount, initialAmount),
   profitUSD |-> formatTokenAmount(AmountMinus(finalAmount, initialAmount),
                                   decimals(SimBaseToken(opp))),
   netProfit |-> formatTokenAmount(AmountMinus(finalAmount, initialAmount),
                                   decimals(SimBaseToken(opp))) - totalGasCost,
   isProfitable |-> formatTokenAmount(AmountMinus(finalAmount, initialAmount),
                                      decimals(SimBaseToken(opp))) - totalGasCost > 0,
   swaps |-> SwapEntries(opp, legs),
   totalGasUsed |-> SumGasUsed(legs, 1), totalGasCost |-> totalGasCost,
   timestamp |-> t]

SimSuccess(call, t) ==
  SimSuccessFrom(call.opp,
                 parseTokenAmount(call.amount, decimals(SimBaseToken(call.opp))),
                 IF call.legs = <<>>
                 THEN parseTokenAmount(call.amount, decimals(SimBaseToken(call.opp)))
                 ELSE call.legs[Len(call.legs)].outputAmount,
                 call.legs, SumGasCost(call.legs, 1), t)

SlippageMultiplierUp(slippagePercent) ==
  dividedBy(BN(100) + slippagePercent, BN(100))

\* (100 - slippagePercent) / 100
SlippageMultiplier(slippagePercent) ==
  dividedBy(BN(100) - slippagePercent, BN(100))

\* simulateWithSlippage after the base simulation has returned
ApplySlippageTo(result, slippageAdjustedOutput, dec, slippagePercent) ==
  [f \in DOMAIN result \cup {"slippageAdjustedOutput", "slippageAdjustedProfit",
                            "netProfitWithSlippage", "isProfitableWithSlippage",
                            "slippagePercent"} |->
     CASE f = "slippageAdjustedOutput" -> slippageAdjustedOutput
       [] f = "slippageAdjustedProfit" ->
            formatTokenAmount(AmountMinus(slippageAdjustedOutput, result.initialAmount),
                              dec)
       [] f = "netProfitWithSlippage" ->
            formatTokenAmount(AmountMinus(slippageAdjustedOutput, result.initialAmount),
                              dec) - result.totalGasCost
       [] f = "isProfitableWithSlippage" ->
            formatTokenAmount(AmountMinus(slippageAdjustedOutput, result.initialAmount),
                              dec) - result.totalGasCost > 0
       [] f = "slippagePercent" -> slippagePercent
       [] OTHER -> result[f]]

simulateWithSlippage(result, opp, slippagePercent) ==
  IF ~result.success THEN result
  ELSE ApplySlippageTo(result,
         calculateOutputAmount(result.finalAmount, SlippageMultiplier(slippagePercent)),
         decimals(SimBaseToken(opp)), slippagePercent)

\* the simulate function returns: the caller holds the base result and, for
\* simulateWithSlippage, the adjusted one
SimReturn(call, result) ==
  [call EXCEPT !.pc = "done", !.base = result,
               !.result = IF call.slip = NoSlippage THEN result
                          ELSE simulateWithSlippage(result, call.opp, call.slip)]

\* the simulation goes on after the legs done so far: it returns the success
\* result, fails before the next quote, or makes the next quote call
SimProceed(call, t) ==
  IF Len(call.legs) = Len(SimLegs(call.opp)) THEN SimReturn(call, SimSuccess(call, t))
  ELSE IF LegPreError(call.opp, Len(call.legs) + 1) # ""
  THEN SimReturn(call, SimFailure(call.opp.type,
                                  LegPreError(call.opp, Len(call.legs) + 1), t))
  ELSE [call EXCEPT !.pc = "quote", !.quotes = @ + 1]

\* the cache after a step of a call: a computed success result is stored
CacheAfter(cache, call, t) ==
  IF call.pc = "done" /\ ~call.fromCache /\ call.base.success
  THEN setCachedResult(cache, getCacheKey(call.opp.type, call.opp.id, call.amount),
                       call.base, t)
  ELSE cache

LegFailedNever(swapResult) == FALSE

\* !buyResult.success, !sellResult.success, !swapResult.success
LegFailed(swapResult) == ~swapResult.success

\* the simulation after the quote call of its next leg has returned
SimAfterQuote(call, swapResult, t) ==
  IF LegFailed(swapResult)
  THEN SimReturn([call EXCEPT !.failedLeg = Len(call.legs) + 1],
                 SimFailure(call.opp.type,
                            LegErrorPrefix(call.opp, Len(call.legs) + 1)
                              \o swapResult.error, t))
  ELSE SimProceed([call EXCEPT !.legs = Append(@, swapResult)], t)

\* the simulation from its start to its first quote call or to its return
SimFromStart(call, cached, t) ==
  IF cached # NoResult THEN SimReturn([call EXCEPT !.fromCache = TRUE], cached)
  ELSE IF SimPreError(call.opp) # ""
  THEN SimReturn(call, SimFailure(call.opp.type, SimPreError(call.opp), t))
  ELSE SimProceed(call, t)

\* a step of caller c leaves its call as given and stores a computed result
SimStep(c, call) ==
  /\ simCalls' = [simCalls EXCEPT ![c] = call]
  /\ simulationCache' = CacheAfter(simulationCache, call, now)

\* caller c calls simulateSimpleArbitrage or simulateTriangularArbitrage, or
\* simulateWithSlippage when slip is a percentage; the callers being alike,
\* they are numbered in the order of their calls
SimStart(c, opp, amount, slip) ==
  /\ simCalls[c].pc = "idle"
  /\ \A d \in Callers : d < c => simCalls[d].pc # "idle"
  /\ SimStep(c, SimFromStart(
                  [pc |-> "start", opp |-> opp, amount |-> amount, slip |-> slip,
                   issuedAt |-> now,
                   doneBefore |-> {d \in Callers : simCalls[d].pc = "done"},
                   legs |-> <<>>, quotes |-> 0, fromCache |-> FALSE, failedLeg |-> 0,
                   base |-> NoResult, result |-> NoResult],
                  getCachedResult(simulationCache,
                                  getCacheKey(opp.type, opp.id, amount), now),
                  now))
  /\ cacheRequests' = cacheRequests + 1
  /\ cacheHits' = cacheHitsAfter(cacheHits, simulationCache,
                                 getCacheKey(opp.type, opp.id, amount), now)
  /\ UNCHANGED now
  /\ UNCHANGED nonSimVars

\* the quote call of caller c returns
SimQuoteReturn(c, outcome) ==
  /\ simCalls[c].pc = "quote"
  /\ SimStep(c, SimAfterQuote(simCalls[c],
                  simulateSwap(LegInput(simCalls[c]),
                    SimLegs(simCalls[c].opp)[Len(simCalls[c].legs) + 1].toToken,
                    outcome),
                  now))
  /\ UNCHANGED <<now, cacheHits, cacheRequests>>
  /\ UNCHANGED nonSimVars

\* cleanupCache: drop the entries older than cacheTimeout
cleanupCache ==
  /\ simulationCache' =
       [k \in {k \in DOMAIN simulationCache :
                 ~(now - simulationCache[k].timestamp > cacheTimeout)} |->
          simulationCache[k]]
  /\ simulationCache' # simulationCache
  /\ UNCHANGED <<simCalls, now, cacheHits, cacheRequests>>
  /\ UNCHANGED nonSimVars

MaxClears == 1

\* clearCache: empty the cache and reset both counters
clearCache ==
  /\ cacheClears < MaxClears
  /\ cacheClears' = cacheClears + 1
  /\ simulationCache' = << >>
  /\ cacheHits' = 0
  /\ cacheRequests' = 0
  /\ UNCHANGED <<simCalls, now>>
  /\ UNCHANGED <<detVarsButNow, profVars, botVars, pxVars, normVars, routeVars, rpcVars,
                 lastScan, statusUpdate, lifeVars, lastMark, oppDb>>

\* the clock advances while simulations run
SimAdvance ==
  /\ now + SimTickMs <= MaxSimTime
  /\ now' = now + SimTickMs
  /\ UNCHANGED simVars
  /\ UNCHANGED nonSimVars

SimInit ==
  /\ DetIdle
  /\ BotIdle
  /\ PxIdle
  /\ normCall = [kind |-> "none"]
  /\ SvcIdle
  /\ envMinProfit = 0
  /\ ProfIdle
  /\ SimIdle

SimNext ==
  \/ \E c \in Callers, opp \in SimOpportunities, amount \in SimTradeAmounts,
        slip \in SlippagePercents : SimStart(c, opp, amount, slip)
  \/ \E c \in Callers, outcome \in QuoteOutcomes : SimQuoteReturn(c, outcome)
  \/ cleanupCache
  \/ SimAdvance

\* the simulator with callers of clearCache
CacheNext ==
  \/ SimNext
  \/ clearCache

(***************************************************************************)
(* Properties of the trade simulator (SpecSim)                             *)
(***************************************************************************)
\* the calls that have been issued
Issued == {c \in Callers : simCalls[c].pc # "idle"}

Returned == {c \in Callers : simCalls[c].pc = "done"}

CallKey(c) ==
  getCacheKey(simCalls[c].opp.type, simCalls[c].opp.id, simCalls[c].amount)

C7_SlippageHaircut ==
  \A c \in Returned :
    simCalls[c].slip # NoSlippage =>
      LET base == simCalls[c].base
          result == simCalls[c].result
          haircut == multipliedBy(base.finalAmount.m,
                                  (100 * Unit - simCalls[c].slip) \div 100)
      IN  IF base.success
          THEN /\ result.slippageAdjustedOutput.m = haircut
               /\ result.slippageAdjustedOutput.e = base.finalAmount.e
               /\ result.netProfitWithSlippage =
                    (haircut - base.initialAmount.m) - base.totalGasCost
               /\ result.isProfitableWithSlippage = (result.netProfitWithSlippage > 0)
               /\ \A f \in DOMAIN base : result[f] = base[f]
          ELSE result = base

\* simulateWithSlippage has returned for a successful base simulation: the
\* haircut lowers the net profit, which stays above zero
C7_Witness ==
  \E c \in Returned :
    /\ simCalls[c].slip # NoSlippage
    /\ simCalls[c].base.success
    /\ simCalls[c].result.netProfitWithSlippage < simCalls[c].base.netProfit
    /\ simCalls[c].result.isProfitableWithSlippage

\* C8: a simulation with a failed leg (pool missing, quoter missing, quote
\* call failed) returns success = false with a non-empty error and without
\* profit fields; a success result is returned only when every leg succeeded;
\* no leg is quoted after a failed one; no failure is stored in the cache.
C8_FailedLegAborts ==
  /\ \A c \in Issued :
       /\ \A i \in 1..Len(simCalls[c].legs) : simCalls[c].legs[i].success
       /\ simCalls[c].quotes <= Len(simCalls[c].legs) + 1
  /\ \A c \in Returned :
       LET call == simCalls[c]
       IN  IF call.base.success
           THEN call.fromCache \/
                (/\ call.failedLeg = 0
                 /\ Len(call.legs) = Len(SimLegs(call.opp))
                 /\ call.quotes = Len(call.legs))
           ELSE /\ call.base.error # ""
                /\ DOMAIN call.base = {"success", "error", "type", "timestamp"}
                /\ call.failedLeg # 0 => call.quotes = call.failedLeg
                /\ Len(call.legs) < Len(SimLegs(call.opp)) \/ SimLegs(call.opp) = <<>>
  /\ \A k \in DOMAIN simulationCache : simulationCache[k].result.success

\* the first leg of a three-leg simulation has failed: the call has returned
\* the failure after one quote call
C8_Witness ==
  \E c \in Returned :
    /\ simCalls[c].failedLeg = 1
    /\ Len(SimLegs(simCalls[c].opp)) = 3
    /\ simCalls[c].quotes = 1
    /\ ~simCalls[c].base.success

\* C9: the legs of a simulation are chained in order: the first takes the
\* trade amount in base units, each later one the output of the leg before
\* it; finalAmount is the output of the last leg, and isProfitable holds
\* exactly when finalAmount - initialAmount in USD less the gas cost of every
\* leg is above zero.
LegGasCostUSD(gasUsed) == ((gasUsed \div 1000) * 4 * Unit) \div 100

RECURSIVE LegsGasCostUSD(_, _)
LegsGasCostUSD(legs, i) ==
  IF i > Len(legs) THEN 0 ELSE LegGasCostUSD(legs[i].gasUsed) + LegsGasCostUSD(legs, i + 1)

C9_LegsChained ==
  \A c \in Issued :
    LET call == simCalls[c]
        n == Len(call.legs)
    IN  /\ n >= 1 =>
             call.legs[1].inputAmount =
               [m |-> call.amount, e |-> decimals(SimBaseToken(call.opp))]
        /\ \A i \in 1..(n - 1) : call.legs[i + 1].inputAmount = call.legs[i].outputAmount
        /\ (call.pc = "done" /\ call.base.success /\ ~call.fromCache) =>
             /\ n = Len(SimLegs(call.opp))
             /\ call.base.finalAmount = call.legs[n].outputAmount
             /\ call.base.isProfitable =
                  ((call.base.finalAmount.m - call.amount)
                     - LegsGasCostUSD(call.legs, 1) > 0)

\* a three-leg simulation has returned a profit that its gas cost outweighs
C9_Witness ==
  \E c \in Returned :
    /\ simCalls[c].base.success
    /\ ~simCalls[c].fromCache
    /\ Len(simCalls[c].legs) = 3
    /\ simCalls[c].base.finalAmount.m > simCalls[c].amount
    /\ ~simCalls[c].base.isProfitable

(***************************************************************************)
(* ArbitrageBot: handling of the opportunities the detector notifies       *)
(***************************************************************************)
MaxBotOpps == 2

MaxExecutes == 2

\* price caches from which the detector notifies an opportunity to the bot
BotCaches ==
  { << [dex |-> "UNISWAP_V3", tokenA |-> "USDT", tokenB |-> "WETH",
        feeTier |-> 3000, price |-> Tick(1000)],
       [dex |-> "SUSHISWAP_V2", tokenA |-> "USDT", tokenB |-> "WETH",
        feeTier |-> 3000, price |-> Tick(p)] >> : p \in {1004, 1057} }

NoExecution == [ready |-> FALSE]

NoSimulation == [done |-> FALSE]

\* what saveOpportunityToDatabase returns: the saved document, or {id} when
\* the database cannot be reached
SavedDoc(opp) ==
  [id |-> opp.id, saved |-> TRUE, tokenInSymbol |-> opp.tokenA,
   tokenOutSymbol |-> opp.tokenB, dexA |-> opp.buyDex, dexB |-> opp.sellDex,
   expectedProfit |-> opp.expectedProfit]

UnsavedDoc(id) == [id |-> id, saved |-> FALSE]

\* the stored document: the fields simulateOpportunity reads, the record of
\* saveOpportunityToDatabase, and the results written later
StoredOpportunity(opp) ==
  [doc |-> SavedDoc(opp), data |-> BotOpportunityData(opp), status |-> "detected",
   simulationResult |-> NoSimulation, executionResult |-> NoExecution]

\* simpleOpp of simulateOpportunity
BotSimpleOpp(doc) ==
  [id |-> doc.id, type |-> "simple", tokenA |-> doc.tokenInSymbol,
   tokenB |-> doc.tokenOutSymbol, buyDex |-> doc.dexA, sellDex |-> doc.dexB]

\* tradeSimulator.simulateSimpleArbitrage(simpleOpp, tradeAmount) as
\* simulateOpportunity calls it: tradeAmount is
\* ARBITRAGE_CONFIG.MIN_TRADE_SIZE_USD, which the configuration does not
\* define, so the amount parsed from it is NaN and no quote can be made of
\* it; the venue names of the detector's opportunities match no pool
BotSimulation(doc, t) ==
  IF ~doc.saved
  THEN SimFailure("simple", "Token information not found for undefined or undefined", t)
  ELSE IF SimPreError(BotSimpleOpp(doc)) # ""
  THEN SimFailure("simple", SimPreError(BotSimpleOpp(doc)), t)
  ELSE IF LegPreError(BotSimpleOpp(doc), 1) # ""
  THEN SimFailure("simple", LegPreError(BotSimpleOpp(doc), 1), t)
  ELSE SimFailure("simple", LegErrorPrefix(BotSimpleOpp(doc), 1) \o "invalid amount", t)

\* the condition under which simulateOpportunity calls executeOpportunity
ShouldExecute(simulationResult, enable) ==
  /\ simulationResult.success
  /\ simulationResult.netProfit > 0
  /\ enable

\* the first argument of markAsSimulated
SimulationSummary(simulationResult) ==
  IF simulationResult.success
  THEN [done |-> TRUE, success |-> TRUE, actualOutput |-> simulationResult.finalAmount,
        gasUsed |-> simulationResult.totalGasUsed]
  ELSE [done |-> TRUE, success |-> FALSE, errorMessage |-> simulationResult.error]

\* markAsSimulated on a saved document; for {id} the fallback
\* findByIdAndUpdate(undefined, ...) matches no document
markAsSimulated(store, doc, simulationResult) ==
  IF doc.saved
  THEN [store EXCEPT ![doc.id] =
          [@ EXCEPT !.status = IF simulationResult.success THEN "profitable"
                               ELSE "unprofitable",
                    !.simulationResult = SimulationSummary(simulationResult)]]
  ELSE store

\* executeOpportunity with a call of rpcManager.sendTransaction added
executeOpportunitySending(store, rpc, errors, doc, simulationResult, dbOk) ==
  [store |-> store, rpc |-> rpc \cup {"sendTransaction"}, errors |-> errors]

\* executeOpportunity: logs, then opportunityDoc.updateOne; {id} has no
\* updateOne and a failed update is caught and counted
executeOpportunity(store, rpc, errors, doc, simulationResult, dbOk) ==
  IF doc.saved /\ dbOk
  THEN [store |->
          [store EXCEPT ![doc.id] =
             [@ EXCEPT !.status = "profitable",
                       !.executionResult =
                          [ready |-> TRUE,
                           simulationProfit |-> simulationResult.netProfit,
                           gasEstimate |-> simulationResult.totalGasUsed]]],
        rpc |-> rpc, errors |-> errors]
  ELSE [store |-> store, rpc |-> rpc, errors |-> errors + 1]

\* the bot's variables after a call of executeOpportunity has returned
AfterExecute(stats, doc, simulationResult, dbOk, after) ==
  /\ botStore' = after.store
  /\ rpcInvoked' = after.rpc
  /\ botStats' = [stats EXCEPT !.errors = after.errors]
  /\ lastExecute' = [n |-> lastExecute.n + 1, doc |-> doc,
                     simulationResult |-> simulationResult, dbOk |-> dbOk,
                     enabled |-> enableTradeExecution]

\* handleNewOpportunity up to the call of the simulator: the opportunity is
\* counted and saved; at or above the profit threshold it is simulated
HandleFrom(opp, dbConnected) ==
  /\ opp # NoOpp
  /\ botStore' = IF dbConnected
                 THEN [k \in DOMAIN botStore \cup {opp.id} |->
                         IF k = opp.id THEN StoredOpportunity(opp) ELSE botStore[k]]
                 ELSE botStore
  /\ handed' = IF dbConnected THEN BotOpportunityData(opp) ELSE handed
  /\ rpcInvoked' = IF dbConnected
                   THEN rpcInvoked \cup {"getBlockNumber", "getGasPrice"}
                   ELSE rpcInvoked
  /\ IF opp.expectedProfit >= MIN_PROFIT_THRESHOLD_USD(envMinProfit)
     THEN /\ botStats' = [botStats EXCEPT !.totalOpportunities = @ + 1,
                                          !.profitableOpportunities = @ + 1,
                                          !.simulatedTrades = @ + 1]
          /\ botCall' = [pc |-> "simulate",
                         doc |-> IF dbConnected THEN SavedDoc(opp)
                                 ELSE UnsavedDoc(opp.id)]
     ELSE /\ botStats' = [botStats EXCEPT !.totalOpportunities = @ + 1]
          /\ botCall' = IdleCall

\* the detector notifies the opportunity found in cache m
handleNewOpportunity(m, gas, dbConnected) ==
  /\ botCall.pc = "idle"
  /\ botStats.totalOpportunities < MaxBotOpps
  /\ HandleFrom(detectSimpleArbitrage(m, "USDT", "WETH", gas, now,
                                      botStats.totalOpportunities + 1, envMinProfit),
                dbConnected)
  /\ UNCHANGED <<enableTradeExecution, lastExecute>>
  /\ UNCHANGED <<profVars, simVars, pxVars, normVars, svcVars>>
  /\ UNCHANGED <<prices, updates, now, envMinProfit, totalScans, scanPc, scanIdx,
                 newOpps, opportunities, nextId, lastDetect, botQueue>>

\* simulateOpportunity once the simulator has returned: the result is
\* written to the record and, when it is a profitable success and execution
\* is enabled, executeOpportunity is called; a failed write is caught
SimulationReturned(doc, simulationResult, dbOk) ==
  IF ~dbOk
  THEN /\ botStats' = [botStats EXCEPT !.errors = @ + 1]
       /\ UNCHANGED <<botStore, rpcInvoked, lastExecute>>
  ELSE IF ShouldExecute(simulationResult, enableTradeExecution)
  THEN AfterExecute(botStats, doc, simulationResult, dbOk,
         executeOpportunity(markAsSimulated(botStore, doc, simulationResult),
                            rpcInvoked, botStats.errors, doc, simulationResult, dbOk))
  ELSE /\ botStore' = markAsSimulated(botStore, doc, simulationResult)
       /\ UNCHANGED <<botStats, rpcInvoked, lastExecute>>

simulateOpportunity(dbOk) ==
  /\ botCall.pc = "simulate"
  /\ SimulationReturned(botCall.doc, BotSimulation(botCall.doc, now), dbOk)
  /\ botCall' = IdleCall
  /\ UNCHANGED enableTradeExecution
  /\ UNCHANGED <<detVars, profVars, simVars, pxVars, normVars, svcVars>>

\* a simulation of the opportunity by the trade simulator, given what the
\* quote calls of its two legs return
SimulateSecondLeg(call, o2, t) ==
  IF call.pc = "done" THEN call.base
  ELSE SimAfterQuote(call, simulateSwap(LegInput(call),
                                        SimLegs(call.opp)[2].toToken, o2), t).base

SimulateFirstLeg(call, o1, o2, t) ==
  IF call.pc = "done" THEN call.base
  ELSE SimulateSecondLeg(
         SimAfterQuote(call, simulateSwap(LegInput(call),
                                          SimLegs(call.opp)[1].toToken, o1), t),
         o2, t)

SimulateSimpleWith(opp, amount, o1, o2, t) ==
  SimulateFirstLeg(
    SimFromStart([pc |-> "start", opp |-> opp, amount |-> amount, slip |-> NoSlippage,
                  issuedAt |-> t, doneBefore |-> {}, legs |-> <<>>, quotes |-> 0,
                  fromCache |-> FALSE, failedLeg |-> 0, base |-> NoResult,
                  result |-> NoResult], NoResult, t),
    o1, o2, t)

\* success results of the simulator, profitable and not
ExecSimulationResults ==
  { r \in { SimulateSimpleWith(
              [id |-> 1, type |-> "simple", tokenA |-> "USDT", tokenB |-> "WETH",
               buyDex |-> "UNISWAP_V3", sellDex |-> "SUSHISWAP_V3"],
              BN(1000), o, o, 0) : o \in QuoteOutcomes } : r.success }

\* the document executeOpportunity is called with: the stored one of that
\* id or, when none is stored, {id}
ExecDoc(store, id) == IF id \in DOMAIN store THEN store[id].doc ELSE UnsavedDoc(id)

\* a call of executeOpportunity(opportunityDoc, simulationResult)
CallExecuteOpportunity(id, simulationResult, dbOk) ==
  /\ botCall.pc = "idle"
  /\ lastExecute.n < MaxExecutes
  /\ id \in DOMAIN botStore \/ id = MaxBotOpps
  /\ AfterExecute(botStats, ExecDoc(botStore, id), simulationResult, dbOk,
       executeOpportunity(botStore, rpcInvoked, botStats.errors,
                          ExecDoc(botStore, id), simulationResult, dbOk))
  /\ UNCHANGED <<enableTradeExecution, botCall>>
  /\ UNCHANGED <<detVars, profVars, simVars, pxVars, normVars, svcVars>>

BotInit ==
  /\ DetIdle
  /\ PxIdle
  /\ normCall = [kind |-> "none"]
  /\ SvcIdle
  /\ envMinProfit \in EnvMinProfitValues
  /\ ProfIdle
  /\ SimIdle
  /\ enableTradeExecution \in BOOLEAN
  /\ botCall = IdleCall
  /\ botStats = [totalOpportunities |-> 0, profitableOpportunities |-> 0,
                 simulatedTrades |-> 0, errors |-> 0]
  /\ botStore = << >>
  /\ rpcInvoked = {}
  /\ lastExecute = NoExecute

BotNext ==
  \/ \E m \in BotCaches, gas \in GasOutcomes, dbConnected \in BOOLEAN :
       handleNewOpportunity(m, gas, dbConnected)
  \/ \E dbOk \in BOOLEAN : simulateOpportunity(dbOk)
  \/ \E id \in 1..MaxBotOpps, simulationResult \in ExecSimulationResults,
        dbOk \in BOOLEAN : CallExecuteOpportunity(id, simulationResult, dbOk)

(***************************************************************************)
(* The methods of the Opportunity document (models/opportunity.js) called  *)
(* with results of the trade simulator, as the simulate route calls        *)
(* markAsSimulated after a simulation that priced both legs.               *)
(***************************************************************************)
MaxMarks == 1

TransactionHashes == {"", "0xabc"}

\* a result of the simulator that did not succeed
FailedSimulation == SimFailure("simple", "Pool information not available", 0)

\* what the simulator hands to the callers of markAsSimulated
MarkSimulationResults == ExecSimulationResults \cup {FailedSimulation}

\* this.status of markAsExecuted; a missing transactionHash is ""
StatusOfExecution(executionResult) ==
  IF executionResult.transactionHash # "" THEN "executed" ELSE "failed"

\* markAsExecuted on the stored document, this.save() answering
markAsExecuted(store, id, executionResult) ==
  [store EXCEPT ![id] =
     [@ EXCEPT !.status = StatusOfExecution(executionResult),
               !.executionResult = [ready |-> TRUE,
                                    transactionHash |-> executionResult.transactionHash]]]

\* the simulate route: opportunity.markAsSimulated({success, actualOutput,
\* ...}) with the result of the simulator; this.save() answers or rejects
RouteMarkAsSimulated(id, simulationResult, ok) ==
  /\ botCall.pc = "idle"
  /\ lastMark.n < MaxMarks
  /\ id \in DOMAIN botStore
  /\ lastMark' = [n |-> lastMark.n + 1, method |-> "markAsSimulated", id |-> id,
                  result |-> simulationResult, ok |-> ok]
  /\ botStore' = IF ok THEN markAsSimulated(botStore, botStore[id].doc, simulationResult)
                 ELSE botStore
  /\ UNCHANGED <<enableTradeExecution, botCall, botStats, rpcInvoked, lastExecute>>
  /\ UNCHANGED <<detVars, profVars, simVars, pxVars, normVars, routeVars, rpcVars,
                 lastScan, statusUpdate, cacheClears, lifeVars, oppDb>>

\* a call of markAsExecuted(executionResult) on a stored document
CallMarkAsExecuted(id, transactionHash) ==
  /\ botCall.pc = "idle"
  /\ lastMark.n < MaxMarks
  /\ id \in DOMAIN botStore
  /\ lastMark' = [n |-> lastMark.n + 1, method |-> "markAsExecuted", id |-> id,
                  result |-> [transactionHash |-> transactionHash], ok |-> TRUE]
  /\ botStore' = markAsExecuted(botStore, id, [transactionHash |-> transactionHash])
  /\ UNCHANGED <<enableTradeExecution, botCall, botStats, rpcInvoked, lastExecute>>
  /\ UNCHANGED <<detVars, profVars, simVars, pxVars, normVars, routeVars, rpcVars,
                 lastScan, statusUpdate, cacheClears, lifeVars, oppDb>>

MarkNext ==
  \/ BotNext
  \/ \E id \in 1..MaxBotOpps, simulationResult \in MarkSimulationResults, ok \in BOOLEAN :
       RouteMarkAsSimulated(id, simulationResult, ok)
  \/ \E id \in 1..MaxBotOpps, transactionHash \in TransactionHashes :
       CallMarkAsExecuted(id, transactionHash)

(***************************************************************************)
(* Properties of the bot (SpecBot)                                         *)
(***************************************************************************)
\* the record executeOpportunity leaves for the document it was called with
ExecutionRecorded(store, call) ==
  [store EXCEPT ![call.doc.id] =
     [@ EXCEPT !.status = "profitable",
               !.executionResult =
                  [ready |-> TRUE, simulationProfit |-> call.simulationResult.netProfit,
                   gasEstimate |-> call.simulationResult.totalGasUsed]]]

\* C10: in every step of the bot, with ENABLE_TRADE_EXECUTION 'true' and a
\* successful profitable simulation included, rpcManager.sendTransaction is
\* not among the RPC methods invoked and no stored opportunity is marked
\* executed; a call of executeOpportunity changes nothing but the stored
\* record of its document (status 'profitable', executionResult ready) or,
\* when the update fails, the error count.
C10_NoTransactionSent ==
  [][ /\ "sendTransaction" \notin rpcInvoked'
      /\ \A id \in DOMAIN botStore' :
           botStore'[id].status \in {"detected", "profitable", "unprofitable"}
      /\ lastExecute' # lastExecute =>
           /\ rpcInvoked' = rpcInvoked
           /\ \/ /\ botStore' = ExecutionRecorded(botStore, lastExecute')
                 /\ botStats' = botStats
              \/ /\ botStore' = botStore
                 /\ botStats' = [botStats EXCEPT !.errors = @ + 1]
    ]_vars

\* executeOpportunity has run with execution enabled on a stored opportunity
\* and a successful profitable simulation, and the record is marked ready
C10_Witness ==
  /\ lastExecute # NoExecute
  /\ lastExecute.enabled
  /\ lastExecute.doc.saved
  /\ lastExecute.dbOk
  /\ ShouldExecute(lastExecute.simulationResult, enableTradeExecution)
  /\ botStore[lastExecute.doc.id].executionResult.ready
  /\ "sendTransaction" \notin rpcInvoked

(***************************************************************************)
(* PriceFetcher.updatePriceV3 / updatePriceV2, one await at a time         *)
(***************************************************************************)
\* history.length > 100
HistoryCap == 100

\* the interval of PriceFetcher.start
intervalMs == 5000

MaxPxTicks == 1
MaxHead == 1
MaxPriceWrites == 2
HistoryExtra == 2

PxKeys ==
  {getPriceKey("UNISWAP_V3", "USDT", "WETH", 500),
   getPriceKey("SUSHISWAP_V2", "USDT", "WETH", 3000)}

\* what the pool read yields: a price, or 0 when the read throws or the V2
\* price is falsy
PxPrices == {1000, 1004}

PxReadOutcomes == PxPrices \cup {0}

\* priceData of updatePriceV3 / updatePriceV2
priceData(key, price, blockNumber, timestamp) ==
  [dex |-> key[1], tokenA |-> key[2], tokenB |-> key[3], feeTier |-> key[4],
   price |-> price, blockNumber |-> blockNumber, timestamp |-> timestamp]

\* a push that, at the cap, drops the entry just pushed
pushHistoryDroppingNewest(history, obs) ==
  IF Len(history) >= HistoryCap THEN history ELSE Append(history, obs)

\* history.push(priceData); if (history.length > 100) history.shift()
pushHistory(history, obs) ==
  IF Len(Append(history, obs)) > HistoryCap
  THEN Tail(Append(history, obs))
  ELSE Append(history, obs)

\* this.priceHistory.get(priceKey), an empty array when the key is new
HistoryGet(h, key) == IF key \in DOMAIN h THEN h[key] ELSE << >>

HistoryPut(h, key, entries) ==
  [k \in DOMAIN h \cup {key} |-> IF k = key THEN entries ELSE h[k]]

NoPriceCall == [pc |-> "idle", key |-> << >>, price |-> 0, blockNumber |-> 0]

\* observations written so far, over every key
WritesDone(w) == Len(w)

\* a caller enters updatePriceV3 / updatePriceV2 for a key whose pool exists
\* and sends the pool reads
UpdateStart(c, key) ==
  /\ priceCalls[c].pc = "idle"
  /\ WritesDone(priceWrites) < priceLimit
  /\ priceCalls' = [priceCalls EXCEPT ![c] = [NoPriceCall EXCEPT !.pc = "pool", !.key = key]]
  /\ UNCHANGED <<priceHistory, chainHead, priceWrites, priceLimit>>
  /\ UNCHANGED <<detVars, profVars, simVars, botVars, normVars, svcVars>>

\* the pool reads resolve; price computed, getBlockNumber requested; a throw
\* or a falsy V2 price ends the call with null
UpdatePoolRead(c, price) ==
  /\ priceCalls[c].pc = "pool"
  /\ priceCalls' = [priceCalls EXCEPT ![c] =
                      IF price = 0 THEN NoPriceCall
                      ELSE [@ EXCEPT !.pc = "block", !.price = price]]
  /\ UNCHANGED <<priceHistory, chainHead, priceWrites, priceLimit>>
  /\ UNCHANGED <<detVars, profVars, simVars, botVars, normVars, svcVars>>

\* a provider answers getBlockNumber with its head; when every provider
\* fails the call ends with null
UpdateBlockServed(c, ok) ==
  /\ priceCalls[c].pc = "block"
  /\ priceCalls' = [priceCalls EXCEPT ![c] =
                      IF ok THEN [@ EXCEPT !.pc = "write", !.blockNumber = chainHead]
                      ELSE NoPriceCall]
  /\ UNCHANGED <<priceHistory, chainHead, priceWrites, priceLimit>>
  /\ UNCHANGED <<detVars, profVars, simVars, botVars, normVars, svcVars>>

\* the answer arrives: timestamp taken, prices.set, history push and shift
UpdateWrite(c) ==
  /\ priceCalls[c].pc = "write"
  /\ prices' = MapSet(prices, priceData(priceCalls[c].key, priceCalls[c].price,
                                        priceCalls[c].blockNumber, now))
  /\ priceHistory' = HistoryPut(priceHistory, priceCalls[c].key,
                        pushHistory(HistoryGet(priceHistory, priceCalls[c].key),
                                    priceData(priceCalls[c].key, priceCalls[c].price,
                                              priceCalls[c].blockNumber, now)))
  /\ priceWrites' = Append(priceWrites,
                           priceData(priceCalls[c].key, priceCalls[c].price,
                                     priceCalls[c].blockNumber, now))
  /\ priceCalls' = [priceCalls EXCEPT ![c] = NoPriceCall]
  /\ UNCHANGED <<chainHead, priceLimit>>
  /\ UNCHANGED <<detVarsButPrices, profVars, simVars, botVars, normVars, svcVars>>

\* the chain grows by a block
NewBlock ==
  /\ chainHead < MaxHead
  /\ chainHead' = chainHead + 1
  /\ UNCHANGED <<priceHistory, priceCalls, priceWrites, priceLimit>>
  /\ UNCHANGED <<detVars, profVars, simVars, botVars, normVars, svcVars>>

\* the clock moves on
PxAdvance(ticks) ==
  /\ now < ticks * intervalMs
  /\ now' = now + intervalMs
  /\ UNCHANGED <<detVarsButNow, profVars, simVars, botVars, pxVars, normVars, svcVars>>

PxInit ==
  /\ DetIdle
  /\ envMinProfit = 0
  /\ ProfIdle
  /\ SimIdle
  /\ BotIdle
  /\ normCall = [kind |-> "none"]
  /\ SvcIdle
  /\ priceHistory = << >>
  /\ priceCalls = [c \in Callers |-> NoPriceCall]
  /\ chainHead = 0
  /\ priceWrites = << >>
  /\ priceLimit = MaxPriceWrites

\* the interval callbacks of start overlap: two updates of a key at a time
PxNext ==
  \/ \E c \in Callers, key \in PxKeys : UpdateStart(c, key)
  \/ \E c \in Callers, price \in PxReadOutcomes : UpdatePoolRead(c, price)
  \/ \E c \in Callers, ok \in BOOLEAN : UpdateBlockServed(c, ok)
  \/ \E c \in Callers : UpdateWrite(c)
  \/ NewBlock
  \/ PxAdvance(MaxPxTicks)

\* one key updated by one call after another, past the cap of its history
HistoryKey == getPriceKey("UNISWAP_V3", "USDT", "WETH", 500)

HistoryInit ==
  /\ DetIdle
  /\ envMinProfit = 0
  /\ ProfIdle
  /\ SimIdle
  /\ BotIdle
  /\ normCall = [kind |-> "none"]
  /\ SvcIdle
  /\ priceHistory = << >>
  /\ priceCalls = [c \in {1} |-> NoPriceCall]
  /\ chainHead = 0
  /\ priceWrites = << >>
  /\ priceLimit = HistoryCap + HistoryExtra

HistoryNext ==
  \/ UpdateStart(1, HistoryKey)
  \/ \E price \in {0, 1000} : UpdatePoolRead(1, price)
  \/ \E ok \in BOOLEAN : UpdateBlockServed(1, ok)
  \/ UpdateWrite(1)
  \/ PxAdvance(1)

(***************************************************************************)
(* PriceNormalizer (utils/price-normalizer.js).  Its numbers are JavaScript *)
(* doubles; they are modelled as exact fractions n/d, on inputs away from  *)
(* the ties where the rounding of a double could decide a comparison.      *)
(***************************************************************************)
RECURSIVE GCD(_, _)
GCD(a, b) == IF b = 0 THEN a ELSE GCD(b, a % b)

\* the fraction n/d in lowest terms with a positive denominator
Rat(n, d) ==
  [n |-> Sgn(d) * (n \div GCD(Abs(n), Abs(d))), d |-> Abs(d) \div GCD(Abs(n), Abs(d))]

RatSub(a, b) == Rat(a.n * b.d - b.n * a.d, a.d * b.d)

RatMul(a, b) == Rat(a.n * b.n, a.d * b.d)

RatDiv(a, b) == Rat(a.n * b.d, a.d * b.n)

RatAbs(a) == [n |-> Abs(a.n), d |-> a.d]

RatLess(a, b) == a.n * b.d < b.n * a.d

\* Number.prototype.toFixed(2), in cents: the nearest cent, halves away from 0
toFixed2(a) ==
  Sgn(a.n) * ((Abs(a.n) \div a.d) * 100 + (2 * (Abs(a.n) % a.d) * 100 + a.d) \div (2 * a.d))

\* this.usdPrices[token] || 0
usdPrices(token) ==
  CASE token = "WETH" -> 2650
    [] token \in {"USDT", "USDC", "DAI"} -> 1
    [] token = "WBTC" -> 65000
    [] OTHER -> 0

\* this.tokenDecimals[token] || 18
tokenDecimals(token) ==
  CASE token \in {"USDT", "USDC"} -> 6
    [] token = "WBTC" -> 8
    [] OTHER -> 18

\* a fraction times 10^k
Scale10(a, k) == IF k >= 0 THEN Rat(a.n * Pow10(k), a.d) ELSE Rat(a.n, a.d * Pow10(-k))

\* fixDecimalScaling: rawPrice / 10^(decimalsA - decimalsB); a raw price is a
\* fraction n/d times 10^e
fixDecimalScaling(tokenA, tokenB, rawPrice) ==
  Scale10(Rat(rawPrice.n, rawPrice.d),
          rawPrice.e - (tokenDecimals(tokenA) - tokenDecimals(tokenB)))

\* Math.abs(scaledPrice - expectedRatio) > Math.abs(1/scaledPrice - expectedRatio)
InversionCloser(scaledPrice, expectedRatio) ==
  RatLess(RatAbs(RatSub(RatDiv(Rat(1, 1), scaledPrice), expectedRatio)),
          RatAbs(RatSub(scaledPrice, expectedRatio)))

\* Math.abs(correctedPrice - expectedRatio) / expectedRatio
Deviation(correctedPrice, expectedRatio) ==
  RatDiv(RatAbs(RatSub(correctedPrice, expectedRatio)), expectedRatio)

\* expectedRatio * (1 + (Math.random() - 0.5) * 0.04)
FallbackPrice(expectedRatio, random) ==
  RatMul(expectedRatio, RatSub(Rat(1, 1), RatMul(RatSub(Rat(1, 2), random), Rat(4, 100))))

\* normalizePrice returning null
NoNormalized == [wasInverted |-> FALSE, tokenBPerTokenA |-> Rat(0, 1), null |-> TRUE]

\* the normalizedPrice object
NormalizedPrice(rawPrice, scaledPrice, expectedRatio, wasInverted, correctedPrice, tokenAUsdPrice, tokenBUsdPrice) ==
  [null |-> FALSE, rawPrice |-> rawPrice, scaledPrice |-> scaledPrice,
   expectedRatio |-> expectedRatio, wasInverted |-> wasInverted,
   tokenAUsdPrice |-> tokenAUsdPrice, tokenBUsdPrice |-> tokenBUsdPrice,
   tokenBPerTokenA |-> correctedPrice,
   tokenAPerTokenB |-> RatDiv(Rat(1, 1), correctedPrice),
   impliedTokenAPrice |-> RatMul(correctedPrice, Rat(tokenBUsdPrice, 1)),
   impliedTokenBPrice |-> RatDiv(Rat(tokenAUsdPrice, 1), correctedPrice),
   buyPrice |-> correctedPrice, sellPrice |-> correctedPrice]

\* step 4 of normalizePrice: more than 50% off, the reference ratio with a
\* random variation replaces the price and the inversion flag is cleared
NormalizeCorrected(rawPrice, scaledPrice, expectedRatio, wasInverted, correctedPrice, random, tokenAUsdPrice, tokenBUsdPrice) ==
  IF RatLess(Rat(1, 2), Deviation(correctedPrice, expectedRatio))
  THEN NormalizedPrice(rawPrice, scaledPrice, expectedRatio, FALSE,
                       FallbackPrice(expectedRatio, random),
                       tokenAUsdPrice, tokenBUsdPrice)
  ELSE NormalizedPrice(rawPrice, scaledPrice, expectedRatio, wasInverted,
                       correctedPrice, tokenAUsdPrice, tokenBUsdPrice)

\* step 3 of normalizePrice: the reciprocal when it is closer to the
\* reference ratio; 1/0 is Infinity, which is never closer
NormalizeScaled(rawPrice, scaledPrice, expectedRatio, random, tokenAUsdPrice, tokenBUsdPrice) ==
  IF scaledPrice.n # 0 /\ InversionCloser(scaledPrice, expectedRatio)
  THEN NormalizeCorrected(rawPrice, scaledPrice, expectedRatio, TRUE,
                          RatDiv(Rat(1, 1), scaledPrice), random,
                          tokenAUsdPrice, tokenBUsdPrice)
  ELSE NormalizeCorrected(rawPrice, scaledPrice, expectedRatio, FALSE,
                          scaledPrice, random, tokenAUsdPrice, tokenBUsdPrice)

\* normalizePrice(tokenA, tokenB, rawPrice); random is what Math.random()
\* returns if the fallback draws it
normalizePrice(tokenA, tokenB, rawPrice, random) ==
  IF usdPrices(tokenA) = 0 \/ usdPrices(tokenB) = 0 THEN NoNormalized
  ELSE NormalizeScaled(rawPrice, fixDecimalScaling(tokenA, tokenB, rawPrice),
                       Rat(usdPrices(tokenA), usdPrices(tokenB)), random,
                       usdPrices(tokenA), usdPrices(tokenB))

\* which of the three ways produced the price of a result
NormPath(tokenA, tokenB, rawPrice) ==
  LET scaled == fixDecimalScaling(tokenA, tokenB, rawPrice)
      expected == Rat(usdPrices(tokenA), usdPrices(tokenB))
      inverted == scaled.n # 0 /\ InversionCloser(scaled, expected)
      corrected == IF inverted THEN RatDiv(Rat(1, 1), scaled) ELSE scaled
  IN  IF RatLess(Rat(1, 2), Deviation(corrected, expected)) THEN "fallback"
      ELSE IF inverted THEN "inverted"
      ELSE "direct"

\* calculateArbitrageOpportunity returning null
NoArbitrage == [null |-> TRUE, profitable |-> FALSE, reason |-> "null"]

\* (priceDifference / avgPrice) * 100
PriceDifferencePercent(buyPrice, sellPrice) ==
  RatDiv(RatMul(RatAbs(RatSub(sellPrice, buyPrice)), Rat(200, 1)),
         RatSub(sellPrice, RatSub(Rat(0, 1), buyPrice)))

\* the profit breakdown returned for a spread that passed both checks; the
\* amounts are formatted with toFixed(2), here in cents
ArbitrageBreakdown(buyDex, sellDex, buyPrice, sellPrice, pct, tradeAmountUSD, grossProfitUSD, swapFees, gasCost) ==
  [null |-> FALSE, reason |-> "", buyDex |-> buyDex, sellDex |-> sellDex,
   buyPrice |-> buyPrice, sellPrice |-> sellPrice, spread |-> pct,
   computed |-> [grossProfitUSD |-> grossProfitUSD, swapFees |-> swapFees,
                 gasCost |-> gasCost,
                 netProfitUSD |-> RatSub(RatSub(grossProfitUSD, swapFees), gasCost)],
   grossProfitUSD |-> toFixed2(grossProfitUSD),
   swapFees |-> toFixed2(swapFees),
   gasCost |-> toFixed2(gasCost),
   netProfitUSD |-> toFixed2(RatSub(RatSub(grossProfitUSD, swapFees), gasCost)),
   profitable |-> RatLess(Rat(10, 1), RatSub(RatSub(grossProfitUSD, swapFees), gasCost))]

\* a variant without the check of the upper end of the spread
ArbitrageFromPricesNoCeiling(tokenA, tokenB, buyDex, sellDex, buyPrice, sellPrice, pct, tradeAmountUSD) ==
  IF RatLess(pct, Rat(1, 100))
  THEN [null |-> FALSE, profitable |-> FALSE, spread |-> pct,
        reason |-> "Price difference too small (<0.01%)"]
  ELSE ArbitrageBreakdown(buyDex, sellDex, buyPrice, sellPrice, pct, tradeAmountUSD,
         RatMul(RatMul(RatDiv(tradeAmountUSD, Rat(usdPrices(tokenA), 1)),
                       RatSub(sellPrice, buyPrice)),
                Rat(usdPrices(tokenB), 1)),
         RatMul(tradeAmountUSD, Rat(6, 1000)), Rat(50, 1))

\* calculateArbitrageOpportunity from the buy and the sell price on
ArbitrageFromPrices(tokenA, tokenB, buyDex, sellDex, buyPrice, sellPrice, pct, tradeAmountUSD) ==
  IF RatLess(pct, Rat(1, 100))
  THEN [null |-> FALSE, profitable |-> FALSE, spread |-> pct,
        reason |-> "Price difference too small (<0.01%)"]
  ELSE IF RatLess(Rat(2, 1), pct)
  THEN [null |-> FALSE, profitable |-> FALSE, spread |-> pct,
        reason |-> "Price difference unrealistically high (>2%)"]
  ELSE ArbitrageBreakdown(buyDex, sellDex, buyPrice, sellPrice, pct, tradeAmountUSD,
         RatMul(RatMul(RatDiv(tradeAmountUSD, Rat(usdPrices(tokenA), 1)),
                       RatSub(sellPrice, buyPrice)),
                Rat(usdPrices(tokenB), 1)),
         RatMul(tradeAmountUSD, Rat(6, 1000)), Rat(50, 1))

\* calculateArbitrageOpportunity from the two normalized prices on
ArbitrageFromNormalized(tokenA, tokenB, normalizedA, normalizedB, tradeAmountUSD) ==
  IF normalizedA.null \/ normalizedB.null THEN NoArbitrage
  ELSE IF RatLess(normalizedA.tokenBPerTokenA, normalizedB.tokenBPerTokenA)
  THEN ArbitrageFromPrices(tokenA, tokenB, "A", "B", normalizedA.tokenBPerTokenA,
         normalizedB.tokenBPerTokenA,
         PriceDifferencePercent(normalizedA.tokenBPerTokenA, normalizedB.tokenBPerTokenA),
         tradeAmountUSD)
  ELSE ArbitrageFromPrices(tokenA, tokenB, "B", "A", normalizedB.tokenBPerTokenA,
         normalizedA.tokenBPerTokenA,
         PriceDifferencePercent(normalizedB.tokenBPerTokenA, normalizedA.tokenBPerTokenA),
         tradeAmountUSD)

\* calculateArbitrageOpportunity(tokenA, tokenB, priceA, priceB, tradeAmountUSD)
calculateArbitrageOpportunity(tokenA, tokenB, priceA, priceB, tradeAmountUSD, randomA, randomB) ==
  ArbitrageFromNormalized(tokenA, tokenB, normalizePrice(tokenA, tokenB, priceA, randomA),
                          normalizePrice(tokenA, tokenB, priceB, randomB), tradeAmountUSD)

\* the inputs tried: per pair, raw prices as fractions n/d times 10^e
RawPrice(n, d, e) == [n |-> n, d |-> d, e |-> e]

NormInputs ==
  { <<"WETH", "USDT", RawPrice(n, 1, 12)>> : n \in {2650, 2651, 2660, 2710, 4000, 6000} }
  \cup { <<"WETH", "USDT", RawPrice(1, 2650, 12)>>, <<"WETH", "USDT", RawPrice(2650, 1, 11)>>,
         <<"WETH", "USDT", RawPrice(-5, 1, 12)>> }
  \cup { <<"USDC", "USDT", RawPrice(n, 1000, 0)>> : n \in {1000, 1001, 990, 1600, 400} }
  \cup { <<"WBTC", "WETH", RawPrice(49, 2, -10)>>, <<"WBTC", "WETH", RawPrice(2, 49, -10)>>,
         <<"WBTC", "WETH", RawPrice(100, 1, -10)>> }
  \cup { <<"LINK", "USDT", RawPrice(15, 1, 12)>> }

\* values of Math.random()
RandomDraws == {Rat(0, 1), Rat(1, 2), Rat(3, 4)}

\* trade amounts in USD
NormTradeAmounts == {Rat(1000, 1), Rat(101, 1), Rat(100000, 1)}

NoNormCall == [kind |-> "none"]

NormIdle == normCall = NoNormCall

\* a call of normalizePrice
CallNormalizePrice(in, random) ==
  /\ normCall = NoNormCall
  /\ normCall' = [kind |-> "normalize", tokenA |-> in[1], tokenB |-> in[2],
                  rawPrice |-> in[3], random |-> random,
                  path |-> IF usdPrices(in[1]) = 0 \/ usdPrices(in[2]) = 0 THEN "null"
                           ELSE NormPath(in[1], in[2], in[3]),
                  result |-> normalizePrice(in[1], in[2], in[3], random)]
  /\ UNCHANGED <<detVars, profVars, simVars, botVars, pxVars, svcVars>>

\* a call of calculateArbitrageOpportunity
CallCalculateArbitrageOpportunity(inA, inB, tradeAmountUSD, randomA, randomB) ==
  /\ normCall = NoNormCall
  /\ inA[1] = inB[1]
  /\ inA[2] = inB[2]
  /\ normCall' = [kind |-> "arbitrage", tokenA |-> inA[1], tokenB |-> inA[2],
                  priceA |-> inA[3], priceB |-> inB[3],
                  tradeAmountUSD |-> tradeAmountUSD,
                  normalizedA |-> normalizePrice(inA[1], inA[2], inA[3], randomA),
                  normalizedB |-> normalizePrice(inA[1], inA[2], inB[3], randomB),
                  result |-> calculateArbitrageOpportunity(inA[1], inA[2], inA[3], inB[3],
                                                           tradeAmountUSD, randomA, randomB)]
  /\ UNCHANGED <<detVars, profVars, simVars, botVars, pxVars, svcVars>>

NormInit ==
  /\ DetIdle
  /\ envMinProfit = 0
  /\ ProfIdle
  /\ SimIdle
  /\ BotIdle
  /\ PxIdle
  /\ SvcIdle
  /\ NormIdle

NormNext ==
  \/ \E in \in NormInputs, random \in RandomDraws : CallNormalizePrice(in, random)
  \/ \E inA \in NormInputs, inB \in NormInputs, tradeAmountUSD \in NormTradeAmounts,
        randomA \in RandomDraws, randomB \in RandomDraws :
       CallCalculateArbitrageOpportunity(inA, inB, tradeAmountUSD, randomA, randomB)

\* the step is a call of a method of the document whose save() answered
MarkedBy(method) ==
  /\ lastMark'.n = lastMark.n + 1
  /\ lastMark'.method = method
  /\ lastMark'.ok

ExecutedOnlyWithTransactionHash ==
  /\ [][MarkedBy("markAsSimulated") /\ ~lastMark'.result.success =>
          botStore'[lastMark'.id].status = "unprofitable"]_vars
  /\ [][MarkedBy("markAsExecuted") =>
          (botStore'[lastMark'.id].status = "executed"
             <=> lastMark'.result.transactionHash # "")]_vars
  /\ [][\A id \in DOMAIN botStore :
          (botStore[id].status # "executed" /\ botStore'[id].status = "executed")
            => MarkedBy("markAsExecuted") /\ lastMark'.id = id]_vars

(***************************************************************************)
(* Properties of the price cache and its history                          *)
(***************************************************************************)
\* the observations written under a key, in the order they were written
WritesTo(w, key) == SelectSeq(w, LAMBDA obs : ObsKey(obs) = key)

\* the last n entries of a sequence, all of it when it is shorter
LastEntries(s, n) == IF Len(s) <= n THEN s ELSE SubSeq(s, Len(s) - n + 1, Len(s))

\* C11: after any sequence of price updates, the observation cached under
\* each key is the one written by the update that completed last for that
\* key, and the key's history holds at most 100 observations: the most
\* recent ones in the order they were written, the oldest dropped first.
C11_CacheAndHistoryFollowWrites ==
  \A key \in PxKeys :
    /\ Len(HistoryGet(priceHistory, key)) <= HistoryCap
    /\ HistoryGet(priceHistory, key) = LastEntries(WritesTo(priceWrites, key), HistoryCap)
    /\ WritesTo(priceWrites, key) # << >> =>
         MapGet(prices, key) = WritesTo(priceWrites, key)[Len(WritesTo(priceWrites, key))]
    /\ WritesTo(priceWrites, key) = << >> => MapGet(prices, key) = NoObs

\* more than 100 updates of a key completed: its history is full and its
\* oldest observation, taken at an earlier time than the oldest one kept,
\* is gone
C11_Witness ==
  /\ Len(WritesTo(priceWrites, HistoryKey)) > HistoryCap
  /\ Len(HistoryGet(priceHistory, HistoryKey)) = HistoryCap
  /\ priceWrites[1].timestamp < HistoryGet(priceHistory, HistoryKey)[1].timestamp
  /\ MapGet(prices, HistoryKey).timestamp > priceWrites[1].timestamp

\* C19: writes to the price cache are last-write-wins by timestamp per key:
\* when updates of a key overlap, the observation left in the cache is the
\* one with the later timestamp, so that neither the timestamp nor the block
\* number stored under a key ever decreases.
C19_TimestampAndBlockNeverDecrease ==
  [][\A key \in PxKeys :
       MapGet(prices, key) # NoObs =>
         /\ MapGet(prices', key) # NoObs
         /\ MapGet(prices', key).timestamp >= MapGet(prices, key).timestamp
         /\ MapGet(prices', key).blockNumber >= MapGet(prices, key).blockNumber]_vars

\* the positions of the cache holding a positive price for the pair, whatever
\* the venue and the fee tier
PairObservations(m, tokenA, tokenB) ==
  {i \in 1..Len(m) : m[i].tokenA = tokenA /\ m[i].tokenB = tokenB /\ m[i].price > 0}

\* what getBestPrice is said to return for a pair: an observation of the
\* highest positive price over every venue cached, none when there is none
BestOverAllVenues(m, tokenA, tokenB, best) ==
  /\ (best.price = NoObs) <=> (PairObservations(m, tokenA, tokenB) = {})
  /\ PairObservations(m, tokenA, tokenB) # {} =>
       \E i \in PairObservations(m, tokenA, tokenB) :
         /\ best.price = m[i]
         /\ best.dex = m[i].dex
         /\ \A j \in PairObservations(m, tokenA, tokenB) : m[j].price <= m[i].price

\* C12: getBestPrice scans every venue with a cached observation for the
\* pair, the observations written under SUSHISWAP_V2 included, and returns
\* the highest quoted price with the venue that offered it; it returns no
\* price only when no venue has a positive price for the pair.
C12_BestPriceOverAllVenues ==
  \A i \in 1..Len(TOKEN_PAIRS) :
    BestOverAllVenues(prices, TOKEN_PAIRS[i][1], TOKEN_PAIRS[i][2],
                      getBestPrice(prices, TOKEN_PAIRS[i][1], TOKEN_PAIRS[i][2]))

(***************************************************************************)
(* Properties of the detect functions on arbitrary caches (SpecFn)         *)
(***************************************************************************)
\* C1: whatever the price cache holds, a candidate emitted by
\* detectSimpleArbitrage never has the same pool as its buy side and as its
\* sell side.
C1_BuyAndSellPoolsDiffer ==
  (lastDetect.kind = "simple" /\ lastDetect.result # NoOpp) =>
    lastDetect.result.buyPool # lastDetect.result.sellPool

\* a candidate is emitted from a cache that holds one pool of the pair in the
\* reversed orientation
C1_Witness ==
  /\ lastDetect.kind = "simple"
  /\ lastDetect.result # NoOpp
  /\ \E i \in 1..Len(lastDetect.rel) : lastDetect.rel[i].tokenA # lastDetect.tokenA

\* C3: for a path with all three legs priced, the candidate of
\* detectTriangularPath carries effectiveRate = p1 * p2 * p3 and
\* profitRate = effectiveRate - 1, and there is no candidate when profitRate
\* is below 0.005 or when 1000 * profitRate less the swap fees (0.9 percent of
\* 1000) and the gas cost is below MIN_PROFIT_THRESHOLD_USD.
C3_TriangularRateAndThresholds ==
  (/\ lastDetect.kind = "triangular"
   /\ \A l \in 1..3 : lastDetect.legs[l] # 0) =>
    LET p1 == lastDetect.legs[1]
        p2tenths == TruncDiv(lastDetect.legs[2] * 10, Unit)
        p3tenths == TruncDiv(lastDetect.legs[3] * 10, Unit)
        rate == (p1 * p2tenths * p3tenths) \div 100
        net == 1000 * (rate - Unit) - BN(9) - estimateTriangularGasCost(lastDetect.gas)
        R == lastDetect.result
    IN  /\ R # NoOpp => (R.effectiveRate = rate /\ R.profitRate = rate - Unit)
        /\ 1000 * (rate - Unit) < 5 * Unit => R = NoOpp
        /\ net < MIN_PROFIT_THRESHOLD_USD(envMinProfit) => R = NoOpp

\* a triangular candidate is emitted with three different leg prices
C3_Witness ==
  /\ lastDetect.kind = "triangular"
  /\ lastDetect.result # NoOpp
  /\ lastDetect.legs[1] # lastDetect.legs[2]
  /\ lastDetect.legs[2] # lastDetect.legs[3]
  /\ lastDetect.legs[1] # lastDetect.legs[3]
  /\ lastDetect.legs[3] # Unit

\* C13: when the price of any of the three legs of a triangular path is
\* missing, or fewer than two observations exist for a simple pair, the
\* detect function returns no opportunity (null), and the call leaves the
\* opportunities map and the candidates collected so far as they were.
C13_MissingPricesYieldNull ==
  /\ (lastDetect.kind = "simple" /\ Len(lastDetect.rel) < 2) => lastDetect.result = NoOpp
  /\ (lastDetect.kind = "triangular" /\ \E i \in 1..3 : lastDetect.legs[i] = 0) =>
       lastDetect.result = NoOpp
  /\ lastDetect # NoDetect => (opportunities = << >> /\ newOpps = << >>)

\* a path with two legs priced above 1 and the third leg missing was
\* examined and gave nothing
C13_Witness ==
  /\ lastDetect.kind = "triangular"
  /\ lastDetect.legs[1] > BN(1)
  /\ lastDetect.legs[2] > BN(1)
  /\ lastDetect.legs[3] = 0
  /\ lastDetect.result = NoOpp

\* the cache holding the observations of m written in the order p
WrittenInOrder(m, p) == [i \in 1..Len(m) |-> m[p[i]]]

\* the buy and sell pools an outcome of detectSimpleArbitrage names
ChosenPools(result) ==
  IF result = NoOpp THEN <<"none">> ELSE <<result.buyPool, result.sellPool>>

C31_CandidateNamesItsVenues ==
  (lastDetect.kind = "simple" /\ lastDetect.result # NoOpp) =>
    /\ lastDetect.result.buyDex = lastDetect.result.buyPool[1]
    /\ lastDetect.result.sellDex = lastDetect.result.sellPool[1]

\* a caller's lookup has been served from the cache
ServedFromCache(call) == call.pc # "idle" /\ call.fromCache

\* C33: over any sequence of simulate, clearCache and cleanupCache calls,
\* cacheHits never exceeds cacheRequests; a simulate call, which looks the
\* cache up once, adds one to cacheRequests, and one to cacheHits exactly
\* when it is served a stored entry younger than cacheTimeout; clearCache
\* empties the cache and sets both counters to 0; nothing else changes them.
C33_CacheCountersConsistent ==
  /\ [](cacheHits <= cacheRequests /\ cacheHits >= 0)
  /\ [][/\ \A c \in Callers :
             (simCalls[c].pc = "idle" /\ simCalls'[c].pc # "idle") =>
               /\ cacheRequests' = cacheRequests + 1
               /\ cacheHits' = cacheHits + (IF ServedFromCache(simCalls'[c]) THEN 1 ELSE 0)
               /\ ServedFromCache(simCalls'[c]) <=>
                    \E k \in DOMAIN simulationCache :
                      /\ k = getCacheKey(simCalls'[c].opp.type, simCalls'[c].opp.id,
                                         simCalls'[c].amount)
                      /\ now - simulationCache[k].timestamp < cacheTimeout
        /\ (cacheClears' # cacheClears) =>
             (simulationCache' = << >> /\ cacheHits' = 0 /\ cacheRequests' = 0)
        /\ (cacheClears' = cacheClears
              /\ \A c \in Callers : (simCalls[c].pc = "idle") = (simCalls'[c].pc = "idle")) =>
             (cacheHits' = cacheHits /\ cacheRequests' = cacheRequests)]_vars

\* a lookup was served from the cache and counted as a hit, and clearCache
\* has since reset both counters
C33_Witness ==
  /\ cacheClears = 1
  /\ cacheRequests = 0
  /\ cacheHits = 0
  /\ \E c \in Callers : ServedFromCache(simCalls[c])

(***************************************************************************)
(* Properties of the gas price cache (SpecGas)                             *)
(***************************************************************************)
\* C14: once initialize has returned, whatever refreshes succeed or fail,
\* getGasPrice returns a gas price (never null) and calculateGasCost returns
\* the cost computed from it, without its fallback for a thrown error; a
\* refresh that fails with nothing cached installs the 20 gwei default and a
\* refresh that fails with a cached value leaves that value in place.
C14_GasPriceAlwaysAvailable ==
  /\ gasLog.initialized => getGasPrice(gasPriceCache) # 0
  /\ (gasLog.called /\ gasLog.calledInitialized) =>
       /\ gasLog.gasPrice > 0
       /\ ~gasLog.caught
       /\ gasLog.gasCost > 0
  /\ (gasLog.refreshed /\ gasLog.outcome = -1 /\ gasLog.before = 0) =>
       gasPriceCache = DefaultGasPriceGwei
  /\ (gasLog.refreshed /\ gasLog.outcome = -1 /\ gasLog.before # 0) =>
       gasPriceCache = gasLog.before

\* after initialize, a refresh has failed on a cached price other than the
\* default, and calculateGasCost has been called since initialize
C14_Witness ==
  /\ gasLog.initialized
  /\ gasLog.outcome = -1
  /\ gasLog.before # 0
  /\ gasLog.before # DefaultGasPriceGwei
  /\ gasLog.called
  /\ gasLog.calledInitialized
  /\ gasLog.gasPrice = gasLog.before

\* a step that removes entries from the simulation cache
CacheShrinks ==
  /\ DOMAIN simulationCache' # DOMAIN simulationCache
  /\ DOMAIN simulationCache' \subseteq DOMAIN simulationCache

C16_CloserReciprocalIsUsed ==
  (/\ normCall.kind = "normalize"
   /\ ~normCall.result.null
   /\ normCall.result.scaledPrice.n # 0
   /\ InversionCloser(normCall.result.scaledPrice, normCall.result.expectedRatio)) =>
    /\ normCall.result.wasInverted
    /\ normCall.result.tokenBPerTokenA = RatDiv(Rat(1, 1), normCall.result.scaledPrice)

\* the price of a result lies within 2% of the expected ratio
WithinTwoPercent(result) ==
  ~RatLess(Rat(2, 100), Deviation(result.tokenBPerTokenA, result.expectedRatio))

\* the flags a result carries
ResultFlags(result) == <<result.wasInverted>>

\* C17: the result of normalizePrice carries a flag that tells a real
\* observed price (direct or inverted) from the reference-ratio value
\* substituted when the deviation exceeds 50%: a substituted result is
\* flagged as no result with a real price is, and its price lies within 2%
\* of the expected ratio.
C17_FallbackIsFlagged ==
  (normCall.kind = "normalize" /\ normCall.path = "fallback") =>
    /\ WithinTwoPercent(normCall.result)
    /\ \A in \in NormInputs, random \in RandomDraws :
         (/\ ~normalizePrice(in[1], in[2], in[3], random).null
          /\ NormPath(in[1], in[2], in[3]) # "fallback") =>
           ResultFlags(normalizePrice(in[1], in[2], in[3], random)) #
             ResultFlags(normCall.result)

\* forward price, reverse price and flags of a result of normalizePrice
ForwardReverseFlags(result) ==
  IF result.null THEN <<"null">>
  ELSE <<result.tokenBPerTokenA, result.tokenAPerTokenB, ResultFlags(result)>>

\* C22: two calls of normalizePrice with the same (tokenA, tokenB, rawPrice)
\* and the same reference-price table return the same forward price, reverse
\* price and flags: the result of a recorded call is the result of every
\* other call with its arguments, and the two normalizations that
\* calculateArbitrageOpportunity makes of one raw price agree.
C22_NormalizePriceIsDeterministic ==
  /\ normCall.kind = "normalize" =>
       \A random \in RandomDraws :
         ForwardReverseFlags(normalizePrice(normCall.tokenA, normCall.tokenB,
                                            normCall.rawPrice, random))
           = ForwardReverseFlags(normCall.result)
  /\ (normCall.kind = "arbitrage" /\ normCall.priceA = normCall.priceB) =>
       ForwardReverseFlags(normCall.normalizedA) = ForwardReverseFlags(normCall.normalizedB)

\* the spread of a call lies outside [0.01%, 2%]
SpreadOutOfRange(call) ==
  \/ RatLess(PriceDifferencePercent(call.normalizedA.tokenBPerTokenA,
                                    call.normalizedB.tokenBPerTokenA), Rat(1, 100))
  \/ RatLess(Rat(2, 1), PriceDifferencePercent(call.normalizedA.tokenBPerTokenA,
                                               call.normalizedB.tokenBPerTokenA))

\* C18 as stated: calculateArbitrageOpportunity returns profitable = false
\* with a reason whenever the spread of the two normalized prices is below
\* 0.01% or above 2%, and only inside [0.01%, 2%] returns a breakdown, in
\* which netProfitUSD = grossProfitUSD - swapFees - gasCost.
C18_BreakdownAddsUp ==
  (normCall.kind = "arbitrage" /\ ~normCall.result.null) =>
    IF SpreadOutOfRange(normCall)
    THEN ~normCall.result.profitable /\ normCall.result.reason # ""
    ELSE /\ normCall.result.reason = ""
         /\ normCall.result.netProfitUSD =
              normCall.result.grossProfitUSD - normCall.result.swapFees
                - normCall.result.gasCost

\* C18 (amended): outside [0.01%, 2%] the call returns profitable = false
\* with a reason; inside, the net profit is computed as gross profit less
\* swap fees less gas cost, and each amount is then rounded to cents on its
\* own, so that the returned netProfitUSD is within one cent of the returned
\* grossProfitUSD - swapFees - gasCost.
C18_BreakdownAddsUpToTheCent ==
  (normCall.kind = "arbitrage" /\ ~normCall.result.null) =>
    IF SpreadOutOfRange(normCall)
    THEN ~normCall.result.profitable /\ normCall.result.reason # ""
    ELSE /\ normCall.result.reason = ""
         /\ normCall.result.computed.netProfitUSD =
              RatSub(RatSub(normCall.result.computed.grossProfitUSD,
                            normCall.result.computed.swapFees),
                     normCall.result.computed.gasCost)
         /\ normCall.result.netProfitUSD = toFixed2(normCall.result.computed.netProfitUSD)
         /\ normCall.result.grossProfitUSD = toFixed2(normCall.result.computed.grossProfitUSD)
         /\ normCall.result.swapFees = toFixed2(normCall.result.computed.swapFees)
         /\ normCall.result.gasCost = toFixed2(normCall.result.computed.gasCost)
         /\ Abs(normCall.result.netProfitUSD -
                (normCall.result.grossProfitUSD - normCall.result.swapFees
                   - normCall.result.gasCost)) <= 1

\* a breakdown was returned whose rounded amounts do not add up exactly
C18_Witness ==
  /\ normCall.kind = "arbitrage"
  /\ ~normCall.result.null
  /\ normCall.result.reason = ""
  /\ normCall.result.netProfitUSD #
       normCall.result.grossProfitUSD - normCall.result.swapFees - normCall.result.gasCost

(***************************************************************************)
(* PriceFetcher.getPrice on caches holding several fee tiers of a pair     *)
(***************************************************************************)
\* observations of one pair on two venues, in both orientations and at the
\* three fee tiers
LookupObs ==
  { [dex |-> d, tokenA |-> "USDT", tokenB |-> "WETH", feeTier |-> f, price |-> Tick(p)] :
      d \in {"UNISWAP_V3", "SUSHISWAP_V3"}, f \in {500, 3000, 10000}, p \in {1000} }
  \cup { [dex |-> "UNISWAP_V3", tokenA |-> "WETH", tokenB |-> "USDT", feeTier |-> f,
           price |-> Tick(900)] : f \in {500, 3000} }

LookupCaches(maxLen) ==
  { m \in UNION { [1..n -> LookupObs] : n \in 0..maxLen } :
      \A i, j \in 1..Len(m) : i # j => ObsKey(m[i]) # ObsKey(m[j]) }

\* fee tiers a caller passes; 0 stands for none, 100 is a tier no pool has
LookupTiers == {0, 100, 500, 3000, 10000}

\* a call of getPrice(dexName, tokenA, tokenB, feeTier)
CallGetPrice(dexName, tokenA, tokenB, feeTier) ==
  /\ lastDetect = NoDetect
  /\ lastDetect' =
       [kind |-> "getPrice", dex |-> dexName, tokenA |-> tokenA, tokenB |-> tokenB,
        feeTier |-> feeTier,
        result |-> getPriceAtTier(prices, dexName, tokenA, tokenB, feeTier)]
  /\ UNCHANGED nonDetVars
  /\ UNCHANGED <<prices, updates, now, envMinProfit, totalScans, scanPc, scanIdx,
                 newOpps, opportunities, nextId, handed, botQueue>>

LookupInit ==
  /\ ProfIdle
  /\ SimIdle
  /\ BotIdle
  /\ PxIdle
  /\ NormIdle
  /\ SvcIdle
  /\ prices \in LookupCaches(MaxCache)
  /\ updates = 0
  /\ now = 0
  /\ envMinProfit = 0
  /\ totalScans = 0
  /\ scanPc = "idle"
  /\ scanIdx = 1
  /\ newOpps = <<>>
  /\ opportunities = << >>
  /\ nextId = 1
  /\ lastDetect = NoDetect
  /\ handed = NoRecord
  /\ botQueue = <<>>

LookupNext ==
  \E dexName \in {"UNISWAP_V3", "SUSHISWAP_V3"}, tokenA \in {"USDT", "WETH"},
     tokenB \in {"USDT", "WETH"}, feeTier \in LookupTiers :
    CallGetPrice(dexName, tokenA, tokenB, feeTier)

\* the observation of cache m for venue, pair as given and fee tier, if any
StoredAt(m, dexName, tokenA, tokenB, feeTier) ==
  {m[i] : i \in {j \in 1..Len(m) : /\ m[j].dex = dexName
                                     /\ m[j].tokenA = tokenA
                                     /\ m[j].tokenB = tokenB
                                     /\ m[j].feeTier = feeTier}}

\* C28: getPrice with a fee tier returns the observation stored for exactly
\* that venue, pair (in the order given) and tier, or none; without a fee
\* tier it returns the observation of the first of the tiers 500, 3000,
\* 10000 that has one, and none if no tier has.
C28_GetPriceByKeyOrTierOrder ==
  lastDetect.kind = "getPrice" =>
    LET stored(f) == StoredAt(prices, lastDetect.dex, lastDetect.tokenA,
                              lastDetect.tokenB, f)
        tiers == <<500, 3000, 10000>>
    IN  IF lastDetect.feeTier # 0
        THEN IF stored(lastDetect.feeTier) = {} THEN lastDetect.result = NoObs
             ELSE stored(lastDetect.feeTier) = {lastDetect.result}
        ELSE IF \A k \in 1..3 : stored(tiers[k]) = {} THEN lastDetect.result = NoObs
        ELSE \E k \in 1..3 :
               /\ stored(tiers[k]) = {lastDetect.result}
               /\ \A j \in 1..(k - 1) : stored(tiers[j]) = {}

\* getPrice was called without a fee tier on a cache where the 3000 tier of
\* the pair was written before the 500 tier, and returned the 500 tier
C28_Witness ==
  /\ lastDetect.kind = "getPrice"
  /\ lastDetect.feeTier = 0
  /\ lastDetect.result # NoObs
  /\ lastDetect.result.feeTier = 500
  /\ \E i, j \in 1..Len(prices) :
       /\ i < j
       /\ prices[i].feeTier = 3000
       /\ ObsKey(prices[j]) = ObsKey(lastDetect.result)
       /\ prices[i].dex = prices[j].dex
       /\ prices[i].tokenA = prices[j].tokenA

(***************************************************************************)
(* POST /api/simulate/opportunity (api/routes/simulate.js), one await at a *)
(* time.  Trade amounts are whole USD, slippage is carried in tenths of a  *)
(* percent.  The simulator and the profit calculator are taken by their    *)
(* outcome: the route keeps nothing of them but the result it stores.      *)
(***************************************************************************)
maxAge == 300000

RouteIds == {"a", "b"}

\* slippage of a body that carries none
NoSlippageField == -1

Body(opportunityId, tradeAmount, slippage) ==
  [opportunityId |-> opportunityId, tradeAmount |-> tradeAmount, slippage |-> slippage]

\* request bodies: "" stands for a missing or empty opportunityId
RouteBodies ==
  {Body("a", 1000, 5), Body("a", 1000, 0), Body("b", 1000, NoSlippageField),
   Body("", 1000, 5), Body("a", 0, 5), Body("a", 100001, 5), Body("a", 1000, 51)}

RouteTimes == {0, 300000, 300001}

\* Joi: opportunityId string required; tradeAmount positive, 1..100000,
\* required; slippage 0..5 percent, default 0.5
simulationSchema(body) ==
  [error |-> \/ body.opportunityId = ""
             \/ body.tradeAmount <= 0
             \/ body.tradeAmount < 1
             \/ body.tradeAmount > 100000
             \/ (body.slippage # NoSlippageField /\ (body.slippage < 0 \/ body.slippage > 50)),
   value |-> [body EXCEPT !.slippage = IF body.slippage = NoSlippageField THEN 5
                                       ELSE body.slippage]]

NoDoc == [id |-> "", timestamp |-> 0, status |-> "none"]

Doc(id, timestamp) == [id |-> id, timestamp |-> timestamp, status |-> "detected"]

NoResponse == [status |-> 0, error |-> ""]

Response(status, error) == [status |-> status, error |-> error]

NoRequest ==
  [pc |-> "idle", body |-> Body("", 0, 0), value |-> Body("", 0, 0), lookups |-> 0,
   opportunity |-> NoDoc, foundAt |-> 0, sims |-> 0, success |-> FALSE,
   saved |-> FALSE, response |-> NoResponse]

\* the age check of the route, taken when findOne has answered
OpportunityExpiredNever(opportunity, t) == FALSE

OpportunityExpired(opportunity, t) == t - opportunity.timestamp > maxAge

\* Opportunity.markAsSimulated: the fields the document carries after it
MarkedAsSimulated(opportunity, success) ==
  [opportunity EXCEPT !.status = IF success THEN "profitable" ELSE "unprofitable"]

\* the request arrives: validation, then the lookup is issued
PostOpportunity(c, body) ==
  /\ apiReqs[c].pc = "idle"
  /\ apiReqs' = [apiReqs EXCEPT ![c] =
       IF simulationSchema(body).error
       THEN [@ EXCEPT !.pc = "done", !.body = body,
                      !.response = Response(400, "Validation error")]
       ELSE [@ EXCEPT !.pc = "findOne", !.body = body,
                      !.value = simulationSchema(body).value]]
  /\ UNCHANGED <<apiStore, apiSims>>
  /\ UNCHANGED <<detVars, profVars, simVars, botVars, pxVars, normVars, rpcVars, scanVars>>

\* the request after Opportunity.findOne has answered with opportunity (or
\* has rejected): the existence and age checks of the route
AfterFindOne(r, ok, opportunity, t) ==
  IF ~ok
  THEN [r EXCEPT !.pc = "done", !.lookups = 1,
                 !.response = Response(500, "Simulation failed")]
  ELSE IF opportunity = NoDoc
  THEN [r EXCEPT !.pc = "done", !.lookups = 1, !.foundAt = t,
                 !.response = Response(404, "Opportunity not found")]
  ELSE IF OpportunityExpired(opportunity, t)
  THEN [r EXCEPT !.pc = "done", !.lookups = 1, !.foundAt = t,
                 !.opportunity = opportunity,
                 !.response = Response(400, "Opportunity expired")]
  ELSE [r EXCEPT !.pc = "simulate", !.lookups = 1, !.foundAt = t,
                 !.opportunity = opportunity]

FindOneServed(c, ok) ==
  /\ apiReqs[c].pc = "findOne"
  /\ apiReqs' = [apiReqs EXCEPT ![c] =
       AfterFindOne(apiReqs[c], ok, apiStore[apiReqs[c].value.opportunityId], now)]
  /\ UNCHANGED <<apiStore, apiSims>>
  /\ UNCHANGED <<detVars, profVars, simVars, botVars, pxVars, normVars, rpcVars, scanVars>>

\* simulateSimpleArbitrage / simulateTriangularArbitrage answers
SimulationServed(c, success) ==
  /\ apiReqs[c].pc = "simulate"
  /\ apiSims' = apiSims + 1
  /\ apiReqs' = [apiReqs EXCEPT ![c] =
       [@ EXCEPT !.pc = IF success /\ apiReqs[c].value.slippage > 0 THEN "slippage"
                        ELSE "save",
                 !.sims = @ + 1, !.success = success]]
  /\ UNCHANGED apiStore
  /\ UNCHANGED <<detVars, profVars, simVars, botVars, pxVars, normVars, rpcVars, scanVars>>

\* simulateWithSlippage answers; the profit analysis follows, its errors caught
SlippageServed(c, success) ==
  /\ apiReqs[c].pc = "slippage"
  /\ apiSims' = apiSims + 1
  /\ apiReqs' = [apiReqs EXCEPT ![c] =
       [@ EXCEPT !.pc = "save", !.sims = @ + 1, !.success = success]]
  /\ UNCHANGED apiStore
  /\ UNCHANGED <<detVars, profVars, simVars, botVars, pxVars, normVars, rpcVars, scanVars>>

\* opportunity.markAsSimulated: this.save() answers or rejects
SaveServed(c, ok) ==
  /\ apiReqs[c].pc = "save"
  /\ IF ok
     THEN /\ apiStore' = [apiStore EXCEPT ![apiReqs[c].opportunity.id] =
                            MarkedAsSimulated(apiReqs[c].opportunity, apiReqs[c].success)]
          /\ apiReqs' = [apiReqs EXCEPT ![c] =
               [@ EXCEPT !.pc = "done", !.saved = TRUE, !.response = Response(200, "")]]
     ELSE /\ apiReqs' = [apiReqs EXCEPT ![c] =
               [@ EXCEPT !.pc = "done", !.response = Response(500, "Simulation failed")]]
          /\ UNCHANGED apiStore
  /\ UNCHANGED apiSims
  /\ UNCHANGED <<detVars, profVars, simVars, botVars, pxVars, normVars, rpcVars, scanVars>>

\* the pipeline stores an opportunity it has just detected
StoreInsert(id) ==
  /\ apiStore[id] = NoDoc
  /\ apiStore' = [apiStore EXCEPT ![id] = Doc(id, now)]
  /\ UNCHANGED <<apiReqs, apiSims>>
  /\ UNCHANGED <<detVars, profVars, simVars, botVars, pxVars, normVars, rpcVars, scanVars>>

RouteAdvance(t) ==
  /\ t > now
  /\ now' = t
  /\ UNCHANGED <<detVarsButNow, profVars, simVars, botVars, pxVars, normVars, svcVars>>

RouteInit ==
  /\ DetIdle
  /\ envMinProfit = 0
  /\ ProfIdle
  /\ SimIdle
  /\ BotIdle
  /\ PxIdle
  /\ NormIdle
  /\ RpcIdle
  /\ lastScan = -1
  /\ AuxIdle
  /\ apiStore = [id \in RouteIds |-> IF id = "a" THEN Doc(id, 0) ELSE NoDoc]
  /\ apiReqs = [c \in Callers |-> NoRequest]
  /\ apiSims = 0

RouteNext ==
  \/ \E c \in Callers, body \in RouteBodies : PostOpportunity(c, body)
  \/ \E c \in Callers, ok \in BOOLEAN : FindOneServed(c, ok)
  \/ \E c \in Callers, success \in BOOLEAN : SimulationServed(c, success)
  \/ \E c \in Callers, success \in BOOLEAN : SlippageServed(c, success)
  \/ \E c \in Callers, ok \in BOOLEAN : SaveServed(c, ok)
  \/ \E id \in RouteIds : StoreInsert(id)
  \/ \E t \in RouteTimes : RouteAdvance(t)

(***************************************************************************)
(* Properties of the simulate route (SpecRoute)                            *)
(***************************************************************************)
ValidationError == Response(400, "Validation error")

OpportunityNotFound == Response(404, "Opportunity not found")

OpportunityExpiredResponse == Response(400, "Opportunity expired")

RejectedBeforeSimulation == {ValidationError, OpportunityNotFound, OpportunityExpiredResponse}

\* what the claim calls an invalid body
InvalidBody(body) ==
  \/ body.opportunityId = ""
  \/ ~(body.tradeAmount \in 1..100000)
  \/ ~(body.slippage = NoSlippageField \/ body.slippage \in 0..50)

\* C21: an answered request got 400 'Validation error' exactly when its body
\* is invalid, and then no lookup was made; a valid body whose id the lookup
\* did not find got 404 'Opportunity not found'; one whose opportunity was
\* older than 5 minutes at the lookup got 400 'Opportunity expired'.  A
\* request answered in one of these three ways ran no simulation and saved
\* nothing, and the step that answers it leaves every stored opportunity and
\* the number of simulations run as they were.
C21_RejectedRequestsRunNothing ==
  /\ [](\A c \in Callers :
          LET r == apiReqs[c] IN
          r.pc = "done" =>
            /\ (r.response = ValidationError) = InvalidBody(r.body)
            /\ r.response = ValidationError => r.lookups = 0
            /\ (r.lookups = 1 /\ r.response.status # 500 /\ r.opportunity = NoDoc
                  /\ r.response # OpportunityExpiredResponse)
                 => r.response = OpportunityNotFound
            /\ (r.opportunity # NoDoc /\ r.foundAt - r.opportunity.timestamp > 5 * 60 * 1000)
                 => r.response = OpportunityExpiredResponse
            /\ r.response \in RejectedBeforeSimulation => (r.sims = 0 /\ ~r.saved))
  /\ [][\A c \in Callers :
          (apiReqs[c].pc # "done" /\ apiReqs'[c].pc = "done"
             /\ apiReqs'[c].response \in RejectedBeforeSimulation)
          => (apiStore' = apiStore /\ apiSims' = apiSims)]_vars

\* one request was answered 'Opportunity expired', another 'Opportunity not
\* found', and the expired opportunity is still stored as detected
C21_Witness ==
  \E c \in Callers, d \in Callers :
    /\ apiReqs[c].response = OpportunityExpiredResponse
    /\ apiStore[apiReqs[c].opportunity.id].status = "detected"
    /\ apiReqs[d].response = OpportunityNotFound

(***************************************************************************)
(* RPCManager (services/rpc-manager.js): initialize, the health check, and *)
(* execute, one await at a time.  An error is the pair of its message and  *)
(* the number of the invocation of the call that raised it (0: raised by   *)
(* the manager itself).                                                    *)
(***************************************************************************)
maxRetries == 3

\* rpcUrls without ETHEREUM_RPC set
NumRpcUrls == 5

MaxRpcExecs == 2

MaxProviderErrors == 6

MaxErrorsOfSeveral == 1

\* the error counts explored: up to MaxProviderErrors on a single provider,
\* and up to MaxErrorsOfSeveral where the Map holds several, whose isHealthy
\* flags are what matters there
ErrorsExplored(providers) ==
  IF Len(providers) <= 1 THEN MaxProviderErrors ELSE MaxErrorsOfSeveral

NoError == <<"", 0>>

NoHealthyProviders == <<"No healthy providers available", 0>>

\* errors a call raises: a transport timeout and a contract revert
CallErrors == {"TIMEOUT", "CALL_EXCEPTION"}

shouldMarkUnhealthy(error) ==
  error[1] \in {"TIMEOUT", "NETWORK_ERROR", "CONNECTION_CLOSED", "RATE_LIMITED",
                "INVALID_RESPONSE"}

Provider(url) == [url |-> url, isHealthy |-> TRUE, errors |-> 0]

\* Array.from(providers.values()).filter(p => p.isHealthy), as indices
availableProviders(providers) ==
  SelectSeq([i \in 1..Len(providers) |-> i], LAMBDA i : providers[i].isHealthy)

\* availableProviders.indexOf(currentProvider), counted from 0; -1 if absent
IndexOfCurrent(available, current) ==
  IF \E k \in 1..Len(available) : available[k] = current
  THEN (CHOOSE k \in 1..Len(available) : available[k] = current) - 1
  ELSE -1

\* switchProvider: the new currentProvider; 0 stands for the throw of
\* 'No healthy providers available'
switchProvider(providers, current) ==
  IF Len(availableProviders(providers)) = 0 THEN 0
  ELSE availableProviders(providers)[
         ((IndexOfCurrent(availableProviders(providers), current) + 1)
            % Len(availableProviders(providers))) + 1]

\* initialize is called: the first url is tested
Initialize ==
  /\ rpcInit.pc = "idle"
  /\ rpcInit' = [pc |-> "testProvider", url |-> 1]
  /\ UNCHANGED <<rpcProviders, rpcCurrent, rpcExec, rpcExecs>>
  /\ UNCHANGED <<detVars, profVars, simVars, botVars, pxVars, normVars, routeVars, scanVars>>

\* initialize after testProvider(url) has thrown: the next url; after the
\* last one, the throw of 'No RPC providers could be initialized' unless the
\* Map holds a provider of an earlier initialize
AfterTestFailed(init, providers) ==
  IF init.url < NumRpcUrls THEN [pc |-> "testProvider", url |-> init.url + 1]
  ELSE IF Len(providers) = 0 THEN [pc |-> "failed", url |-> init.url]
  ELSE [pc |-> "getNetwork", url |-> init.url]

\* this.currentProvider after testProvider(url) has thrown: after the last
\* url, providers.values().next().value
CurrentAfterTestFailed(init, providers, current) ==
  IF init.url < NumRpcUrls \/ Len(providers) = 0 THEN current ELSE 1

\* providers.set(url, {...}): a url the Map holds keeps its place and gets
\* the new record
ProvidersSet(providers, url) ==
  IF \E i \in 1..Len(providers) : providers[i].url = url
  THEN [i \in 1..Len(providers) |->
          IF providers[i].url = url THEN Provider(url) ELSE providers[i]]
  ELSE Append(providers, Provider(url))

\* testProvider: provider.getBlockNumber() answers or rejects before the
\* 3 s timer; a working provider ends the loop and becomes the current one
TestProviderServed(ok) ==
  /\ rpcInit.pc = "testProvider"
  /\ IF ok
     THEN /\ rpcProviders' = ProvidersSet(rpcProviders, rpcInit.url)
          /\ rpcCurrent' = 1
          /\ rpcInit' = [rpcInit EXCEPT !.pc = "getNetwork"]
     ELSE /\ rpcInit' = AfterTestFailed(rpcInit, rpcProviders)
          /\ rpcCurrent' = CurrentAfterTestFailed(rpcInit, rpcProviders, rpcCurrent)
          /\ UNCHANGED rpcProviders
  /\ UNCHANGED <<rpcExec, rpcExecs>>
  /\ UNCHANGED <<detVars, profVars, simVars, botVars, pxVars, normVars, routeVars, scanVars>>

\* testProvider: the 3 s timer fires first, 'Provider test timeout'
TestProviderTimeout ==
  /\ rpcInit.pc = "testProvider"
  /\ rpcInit' = AfterTestFailed(rpcInit, rpcProviders)
  /\ rpcCurrent' = CurrentAfterTestFailed(rpcInit, rpcProviders, rpcCurrent)
  /\ UNCHANGED <<rpcProviders, rpcExec, rpcExecs>>
  /\ UNCHANGED <<detVars, profVars, simVars, botVars, pxVars, normVars, routeVars, scanVars>>

\* currentProvider.provider.getNetwork() answers or rejects
GetNetworkServed(ok) ==
  /\ rpcInit.pc = "getNetwork"
  /\ rpcInit' = [rpcInit EXCEPT !.pc = IF ok THEN "initialized" ELSE "failed"]
  /\ UNCHANGED <<rpcProviders, rpcCurrent, rpcExec, rpcExecs>>
  /\ UNCHANGED <<detVars, profVars, simVars, botVars, pxVars, normVars, routeVars, scanVars>>

\* providers after the health check has heard from provider p
HealthChecked(providers, p, ok) ==
  [providers EXCEPT ![p] = IF ok THEN [@ EXCEPT !.isHealthy = TRUE]
                           ELSE [@ EXCEPT !.isHealthy = FALSE, !.errors = @ + 1]]

\* performHealthCheck: provider p answers or rejects; after the last
\* provider an unhealthy current provider is switched away from
performHealthCheck(p, ok) ==
  /\ rpcInit.pc = "initialized"
  /\ p \in 1..Len(rpcProviders)
  /\ ok \/ rpcProviders[p].errors < ErrorsExplored(rpcProviders)
  /\ rpcProviders' = HealthChecked(rpcProviders, p, ok)
  /\ rpcCurrent' =
       IF /\ p = Len(rpcProviders)
          /\ rpcCurrent # 0
          /\ ~HealthChecked(rpcProviders, p, ok)[rpcCurrent].isHealthy
          /\ switchProvider(HealthChecked(rpcProviders, p, ok), rpcCurrent) # 0
       THEN switchProvider(HealthChecked(rpcProviders, p, ok), rpcCurrent)
       ELSE rpcCurrent
  /\ UNCHANGED <<rpcInit, rpcExec, rpcExecs>>
  /\ UNCHANGED <<detVars, profVars, simVars, botVars, pxVars, normVars, routeVars, scanVars>>

NoExec ==
  [pc |-> "idle", attempt |-> 0, calls |-> 0, lastError |-> NoError,
   lastCallError |-> NoError, providersTried |-> << >>, invokedHealthy |-> << >>,
   error |-> NoError]

\* execute after a failed attempt: back off before the next one, or leave
\* the loop and throw lastError
AfterFailedAttempt(exec, error) ==
  IF exec.attempt < maxRetries - 1
  THEN [exec EXCEPT !.pc = "sleep", !.lastError = error]
  ELSE [exec EXCEPT !.pc = "rejected", !.lastError = error, !.error = error,
                    !.attempt = @ + 1]

\* execute(call) is called
Execute ==
  /\ rpcInit.pc = "initialized"
  /\ rpcExec.pc \in {"idle", "returned", "rejected"}
  /\ rpcExecs < MaxRpcExecs
  /\ rpcExecs' = rpcExecs + 1
  /\ rpcExec' = [NoExec EXCEPT !.pc = "attempt"]
  /\ UNCHANGED <<rpcInit, rpcProviders, rpcCurrent>>
  /\ UNCHANGED <<detVars, profVars, simVars, botVars, pxVars, normVars, routeVars, scanVars>>

\* !this.currentProvider || !this.currentProvider.isHealthy
NeedsSwitch(providers, current) == current = 0 \/ ~providers[current].isHealthy

\* execute at the invocation of call(this.currentProvider.provider); whether
\* the provider's isHealthy flag is set at that moment is noted
Invoked(exec, providers, current) ==
  [exec EXCEPT !.pc = "call", !.calls = @ + 1,
               !.providersTried = Append(@, current),
               !.invokedHealthy = Append(@, providers[current].isHealthy)]

\* top of an attempt: an unhealthy or missing current provider is switched
\* away from, then the call is invoked on the current provider
ExecuteAttempt ==
  /\ rpcExec.pc = "attempt"
  /\ IF NeedsSwitch(rpcProviders, rpcCurrent)
     THEN IF switchProvider(rpcProviders, rpcCurrent) = 0
          THEN /\ rpcExec' = AfterFailedAttempt(rpcExec, NoHealthyProviders)
               /\ UNCHANGED rpcCurrent
          ELSE /\ rpcCurrent' = switchProvider(rpcProviders, rpcCurrent)
               /\ rpcExec' = Invoked(rpcExec, rpcProviders, rpcCurrent')
     ELSE /\ rpcExec' = Invoked(rpcExec, rpcProviders, rpcCurrent)
          /\ UNCHANGED rpcCurrent
  /\ UNCHANGED <<rpcInit, rpcProviders, rpcExecs>>
  /\ UNCHANGED <<detVars, profVars, simVars, botVars, pxVars, normVars, routeVars, scanVars>>

\* providers after an error of the call: certain errors mark the current
\* provider unhealthy
AfterCallError(providers, current, error) ==
  IF shouldMarkUnhealthy(error) /\ current # 0
  THEN [providers EXCEPT ![current] = [@ EXCEPT !.isHealthy = FALSE, !.errors = @ + 1]]
  ELSE providers

\* the call answers: the result is returned and the current provider's
\* error count reset
ExecuteCallReturned ==
  /\ rpcExec.pc = "call"
  /\ rpcExec' = [rpcExec EXCEPT !.pc = "returned"]
  /\ rpcProviders' = IF rpcCurrent # 0
                     THEN [rpcProviders EXCEPT ![rpcCurrent] = [@ EXCEPT !.errors = 0]]
                     ELSE rpcProviders
  /\ UNCHANGED <<rpcInit, rpcCurrent, rpcExecs>>
  /\ UNCHANGED <<detVars, profVars, simVars, botVars, pxVars, normVars, routeVars, scanVars>>

\* the call rejects with message
ExecuteCallFailed(message) ==
  /\ rpcExec.pc = "call"
  /\ rpcCurrent # 0 => rpcProviders[rpcCurrent].errors < ErrorsExplored(rpcProviders)
  /\ rpcProviders' = AfterCallError(rpcProviders, rpcCurrent, <<message, rpcExec.calls>>)
  /\ rpcExec' = [AfterFailedAttempt(rpcExec, <<message, rpcExec.calls>>)
                   EXCEPT !.lastCallError = <<message, rpcExec.calls>>]
  /\ UNCHANGED <<rpcInit, rpcCurrent, rpcExecs>>
  /\ UNCHANGED <<detVars, profVars, simVars, botVars, pxVars, normVars, routeVars, scanVars>>

\* the back-off sleep is over: switchProvider, whose throw leaves execute
ExecuteSleepDone ==
  /\ rpcExec.pc = "sleep"
  /\ IF switchProvider(rpcProviders, rpcCurrent) = 0
     THEN /\ rpcExec' = [rpcExec EXCEPT !.pc = "rejected", !.error = NoHealthyProviders]
          /\ UNCHANGED rpcCurrent
     ELSE /\ rpcCurrent' = switchProvider(rpcProviders, rpcCurrent)
          /\ rpcExec' = [rpcExec EXCEPT !.pc = "attempt", !.attempt = @ + 1]
  /\ UNCHANGED <<rpcInit, rpcProviders, rpcExecs>>
  /\ UNCHANGED <<detVars, profVars, simVars, botVars, pxVars, normVars, routeVars, scanVars>>

RpcInit ==
  /\ DetIdle
  /\ envMinProfit = 0
  /\ ProfIdle
  /\ SimIdle
  /\ BotIdle
  /\ PxIdle
  /\ NormIdle
  /\ RouteIdle
  /\ lastScan = -1
  /\ AuxIdle
  /\ rpcInit = IdleCall
  /\ rpcProviders = << >>
  /\ rpcCurrent = 0
  /\ rpcExec = NoExec
  /\ rpcExecs = 0

MaxProviders == 2

\* initialize is called again, as api/prices.js does on every request
\* (rpcManager.isInitialized is never set): the urls are tested anew.  The
\* repeated calls explored are those made before the first execute.
InitializeAgain ==
  /\ rpcInit.pc = "initialized"
  /\ Len(rpcProviders) < MaxProviders
  /\ rpcExecs = 0
  /\ rpcInit' = [pc |-> "testProvider", url |-> 1]
  /\ UNCHANGED <<rpcProviders, rpcCurrent, rpcExec, rpcExecs>>
  /\ UNCHANGED <<detVars, profVars, simVars, botVars, pxVars, normVars, routeVars, scanVars>>

\* top of an attempt up to `await this.switchProvider()`: the switch is
\* made, and execute resumes in a later microtask
ExecuteSwitch ==
  /\ rpcExec.pc = "attempt"
  /\ NeedsSwitch(rpcProviders, rpcCurrent)
  /\ switchProvider(rpcProviders, rpcCurrent) # 0
  /\ rpcCurrent' = switchProvider(rpcProviders, rpcCurrent)
  /\ rpcExec' = [rpcExec EXCEPT !.pc = "switched"]
  /\ UNCHANGED <<rpcInit, rpcProviders, rpcExecs>>
  /\ UNCHANGED <<detVars, profVars, simVars, botVars, pxVars, normVars, routeVars, scanVars>>

\* execute resumes after the switch and invokes the call on what is then
\* the current provider
ExecuteInvoke ==
  /\ rpcExec.pc = "switched"
  /\ rpcExec' = Invoked(rpcExec, rpcProviders, rpcCurrent)
  /\ UNCHANGED <<rpcInit, rpcProviders, rpcCurrent, rpcExecs>>
  /\ UNCHANGED <<detVars, profVars, simVars, botVars, pxVars, normVars, routeVars, scanVars>>

\* the call of another, concurrent execute rejects with message: its catch
\* marks the current provider as this execute's would
ConcurrentCallFailed(message) ==
  /\ rpcInit.pc = "initialized"
  /\ rpcCurrent # 0
  /\ rpcProviders[rpcCurrent].errors < ErrorsExplored(rpcProviders)
  /\ rpcProviders' = AfterCallError(rpcProviders, rpcCurrent, <<message, 1>>)
  /\ rpcProviders' # rpcProviders
  /\ UNCHANGED <<rpcInit, rpcCurrent, rpcExec, rpcExecs>>
  /\ UNCHANGED <<detVars, profVars, simVars, botVars, pxVars, normVars, routeVars, scanVars>>

\* the call of another, concurrent execute answers: the current provider's
\* error count is reset
ConcurrentCallReturned ==
  /\ rpcInit.pc = "initialized"
  /\ rpcCurrent # 0
  /\ rpcProviders[rpcCurrent].errors # 0
  /\ rpcProviders' = [rpcProviders EXCEPT ![rpcCurrent] = [@ EXCEPT !.errors = 0]]
  /\ UNCHANGED <<rpcInit, rpcCurrent, rpcExec, rpcExecs>>
  /\ UNCHANGED <<detVars, profVars, simVars, botVars, pxVars, normVars, routeVars, scanVars>>

RpcNext ==
  \/ Initialize
  \/ \E ok \in BOOLEAN : TestProviderServed(ok)
  \/ TestProviderTimeout
  \/ \E ok \in BOOLEAN : GetNetworkServed(ok)
  \/ \E p \in 1..NumRpcUrls, ok \in BOOLEAN : performHealthCheck(p, ok)
  \/ Execute
  \/ ExecuteAttempt
  \/ ExecuteCallReturned
  \/ \E message \in CallErrors : ExecuteCallFailed(message)
  \/ ExecuteSleepDone

\* the manager with the calls of other executes in flight
RpcConcNext ==
  \/ RpcNext
  \/ InitializeAgain
  \/ ExecuteSwitch
  \/ ExecuteInvoke
  \/ \E message \in CallErrors : ConcurrentCallFailed(message)
  \/ ConcurrentCallReturned

(***************************************************************************)
(* Start and stop of the arbitrage detector and the price fetcher: the     *)
(* isRunning flag, the interval field, the timers the runtime holds, and   *)
(* the scanForOpportunities / updateAllPrices runs in flight.              *)
(***************************************************************************)
Services == {"detector", "fetcher"}

MaxTimers == 3

MaxCycles == 2

\* the interval field when it holds null
NoTimer == <<"none", 0>>

\* the timers of service s that are set and not cleared
TimersOf(s) == {t \in timers : t[1] = s}

\* start's guard that lets every call through
AlreadyRunningNever(r) == FALSE

\* if (this.isRunning) return, the guard of start, startDetection and
\* startPriceFetching
AlreadyRunning(r) == r.isRunning

\* start(intervalMs) on the fields of service s: the flag, and the handle of
\* the new timer in the interval field
start(s, r) ==
  IF AlreadyRunning(r) THEN r
  ELSE [r EXCEPT !.isRunning = TRUE, !.interval = <<s, timerSeq + 1>>]

\* the timers after start(intervalMs): setInterval adds one
TimersAfterStart(s, r) ==
  IF AlreadyRunning(r) THEN timers ELSE timers \cup {<<s, timerSeq + 1>>}

\* stop() on the fields of a service
stop(r) ==
  IF ~r.isRunning THEN r ELSE [r EXCEPT !.isRunning = FALSE, !.interval = NoTimer]

\* the timers after stop(): clearInterval of the handle the field holds
TimersAfterStop(r) ==
  IF ~r.isRunning \/ r.interval = NoTimer THEN timers ELSE timers \ {r.interval}

\* what the lifecycle calls leave alone
LifeFrame ==
  /\ UNCHANGED <<detVars, profVars, simVars, botVars, pxVars, normVars, routeVars, rpcVars>>
  /\ UNCHANGED <<lastScan, statusUpdate, cacheClears, botLife, scheduled, lastMark,
                 oppDb>>

\* a call of start(intervalMs) of service s
Start(s) ==
  /\ timerSeq < MaxTimers
  /\ svc' = [svc EXCEPT ![s] = start(s, @)]
  /\ timers' = TimersAfterStart(s, svc[s])
  /\ timerSeq' = IF AlreadyRunning(svc[s]) THEN timerSeq ELSE timerSeq + 1
  /\ lifeCall' = [op |-> "start", service |-> s, wasRunning |-> svc[s].isRunning]
  /\ LifeFrame

\* a call of stop() of service s
Stop(s) ==
  /\ svc' = [svc EXCEPT ![s] = stop(@)]
  /\ timers' = TimersAfterStop(svc[s])
  /\ lifeCall' = [op |-> "stop", service |-> s, wasRunning |-> svc[s].isRunning]
  /\ UNCHANGED timerSeq
  /\ LifeFrame

\* ArbitrageDetector.startDetection up to its await: the initial scan begins
\* unless the detector runs
StartDetection ==
  /\ svc["detector"].starting + svc["detector"].cycles < MaxCycles
  /\ svc' = [svc EXCEPT !["detector"] =
               IF AlreadyRunning(@) THEN @ ELSE [@ EXCEPT !.starting = @ + 1]]
  /\ lifeCall' = [op |-> "startDetection", service |-> "detector",
                  wasRunning |-> svc["detector"].isRunning]
  /\ UNCHANGED <<timers, timerSeq>>
  /\ LifeFrame

\* the initial scan of a startDetection call returns, and the call goes on
\* to start(SCAN_INTERVAL_MS)
StartDetectionScanned ==
  /\ svc["detector"].starting > 0
  /\ timerSeq < MaxTimers
  /\ svc' = [svc EXCEPT !["detector"] = start("detector", [@ EXCEPT !.starting = @ - 1])]
  /\ timers' = TimersAfterStart("detector", svc["detector"])
  /\ timerSeq' = IF AlreadyRunning(svc["detector"]) THEN timerSeq ELSE timerSeq + 1
  /\ lifeCall' = [op |-> "start", service |-> "detector",
                  wasRunning |-> svc["detector"].isRunning]
  /\ LifeFrame

\* PriceFetcher.startPriceFetching: start(PRICE_UPDATE_INTERVAL_MS) unless
\* the fetcher runs
StartPriceFetching ==
  /\ timerSeq < MaxTimers
  /\ svc' = [svc EXCEPT !["fetcher"] = start("fetcher", @)]
  /\ timers' = TimersAfterStart("fetcher", svc["fetcher"])
  /\ timerSeq' = IF AlreadyRunning(svc["fetcher"]) THEN timerSeq ELSE timerSeq + 1
  /\ lifeCall' = [op |-> "startPriceFetching", service |-> "fetcher",
                  wasRunning |-> svc["fetcher"].isRunning]
  /\ LifeFrame

\* an active timer of service s fires: its callback calls
\* scanForOpportunities / updateAllPrices, which runs to its first await
IntervalTick(s) ==
  /\ TimersOf(s) # {}
  /\ svc[s].starting + svc[s].cycles < MaxCycles
  /\ svc' = [svc EXCEPT ![s] = [@ EXCEPT !.cycles = @ + 1]]
  /\ UNCHANGED <<timers, timerSeq, lifeCall>>
  /\ LifeFrame

\* a run of scanForOpportunities / updateAllPrices a timer started returns
CycleDone(s) ==
  /\ svc[s].cycles > 0
  /\ svc' = [svc EXCEPT ![s] = [@ EXCEPT !.cycles = @ - 1]]
  /\ UNCHANGED <<timers, timerSeq, lifeCall>>
  /\ LifeFrame

LifeInit == DetInit

LifeNext ==
  \/ \E s \in Services : Start(s)
  \/ \E s \in Services : Stop(s)
  \/ StartDetection
  \/ StartDetectionScanned
  \/ StartPriceFetching
  \/ \E s \in Services : IntervalTick(s)
  \/ \E s \in Services : CycleDone(s)

(***************************************************************************)
(* Properties of start and stop (SpecLife)                                 *)
(***************************************************************************)
\* C34: over any sequence of start, startDetection / startPriceFetching and
\* stop calls, each service has at most one active interval timer, isRunning
\* is true exactly when a timer is active, and that timer is the one the
\* interval field holds; while a service runs no call adds a timer, and a
\* step that ends the running leaves no timer active.
C34_OneTimerPerService ==
  /\ [](\A s \in Services :
          /\ Cardinality(TimersOf(s)) <= 1
          /\ svc[s].isRunning <=> TimersOf(s) # {}
          /\ svc[s].isRunning => TimersOf(s) = {svc[s].interval})
  /\ [][\A s \in Services :
          /\ (svc[s].isRunning /\ svc'[s].isRunning) => TimersOf(s)' = TimersOf(s)
          /\ (svc[s].isRunning /\ ~svc'[s].isRunning) => TimersOf(s)' = {}]_vars

\* start was called on the running detector, which had been started, stopped
\* and started again: one timer is active, the second one created
C34_Witness ==
  /\ lifeCall.op = "start"
  /\ lifeCall.service = "detector"
  /\ lifeCall.wasRunning
  /\ timerSeq >= 2
  /\ TimersOf("detector") = {svc["detector"].interval}

\* C35: the cycles of one service do not overlap: a timer tick that fires
\* while a scanForOpportunities (or updateAllPrices) run started by an
\* earlier tick is still awaiting starts no second run, so at most one
\* timer-started run of a service is in flight.
C35_CyclesDoNotOverlap ==
  \A s \in Services : svc[s].cycles <= 1

(***************************************************************************)
(* ArbitrageBot.start and stop (src/index.js), one await at a time, and    *)
(* the periodic tasks they and the services set and clear.                 *)
(***************************************************************************)
MaxBotStarts == 2

MaxBotStops == 2

\* the tasks set by setInterval: by RPCManager.startHealthChecks, by
\* ProfitCalculator.initialize, by PriceFetcher.start, by
\* ArbitrageDetector.start, and the three of startMonitoring
PeriodicTasks ==
  {"rpcHealthChecks", "gasPriceRefresh", "pricePolling", "scanning",
   "botHealthCheck", "cleanup", "stats"}

\* how initialize ends: every service initialized; rpcManager.initialize
\* throws; or a later service (pool discovery) throws
InitializeOutcomes == {"ok", "rpcFailed", "poolsFailed"}

\* the periodic tasks initialize has set when it ends
TasksOfInitialize(outcome) ==
  CASE outcome = "ok" -> {"rpcHealthChecks", "gasPriceRefresh"}
    [] outcome = "poolsFailed" -> {"rpcHealthChecks"}
    [] OTHER -> {}

\* what the bot's lifecycle calls leave alone
BotLifeFrame ==
  /\ UNCHANGED <<detVars, profVars, simVars, botVars, pxVars, normVars, routeVars, rpcVars>>
  /\ UNCHANGED <<lastScan, statusUpdate, cacheClears, svc, timers, timerSeq, lifeCall,
                 lastMark, oppDb>>

\* the tasks stop() clears before its first await: this.intervals, and the
\* timers of the price fetcher and the detector if this.services holds them
TasksClearedBeforeAwait(services) ==
  {"botHealthCheck", "cleanup", "stats"}
    \cup (IF services THEN {"pricePolling", "scanning"} ELSE {})

\* the tasks stop() clears after its awaits: this.services.rpc.destroy()
TasksClearedAtEnd(services) == IF services THEN {"rpcHealthChecks"} ELSE {}

\* start() is called: it returns at once if the bot runs, else initialize
\* begins unless this.services is filled
BotStart ==
  /\ botLife.start \in {"idle", "started", "failed"}
  /\ botLife.starts < MaxBotStarts
  /\ botLife' =
       IF botLife.isRunning THEN [botLife EXCEPT !.starts = @ + 1]
       ELSE [botLife EXCEPT !.starts = @ + 1,
                            !.stop = IF @ = "stopping" THEN @ ELSE "idle",
                            !.start = IF botLife.services THEN "initialized"
                                      ELSE "initialize"]
  /\ UNCHANGED scheduled
  /\ BotLifeFrame

\* initialize() ends
BotInitialized(outcome) ==
  /\ botLife.start = "initialize"
  /\ scheduled' = scheduled \cup TasksOfInitialize(outcome)
  /\ botLife' = IF outcome = "ok"
                THEN [botLife EXCEPT !.services = TRUE, !.start = "initialized"]
                ELSE [botLife EXCEPT !.start = "failing"]
  /\ BotLifeFrame

\* start() after initialize: isRunning = true, and startCoreServices up to
\* its 3 s wait, priceFetcher.startPriceFetching() done
BotStartFetcher ==
  /\ botLife.start = "initialized"
  /\ botLife' = [botLife EXCEPT !.isRunning = TRUE, !.start = "wait"]
  /\ scheduled' = scheduled \cup {"pricePolling"}
  /\ BotLifeFrame

\* the wait is over: arbitrageDetector.startDetection() runs its initial
\* scan and starts the scan timer; startMonitoring sets the three
\* intervals; apiServer.start() is awaited
BotStartDetector ==
  /\ botLife.start = "wait"
  /\ botLife' = [botLife EXCEPT !.start = "api"]
  /\ scheduled' = scheduled \cup {"scanning", "botHealthCheck", "cleanup", "stats"}
  /\ BotLifeFrame

\* apiServer.start() answers or throws
BotApiStarted(ok) ==
  /\ botLife.start = "api"
  /\ botLife' = [botLife EXCEPT !.start = IF ok THEN "started" ELSE "failing"]
  /\ UNCHANGED scheduled
  /\ BotLifeFrame

\* stop() up to its first await: a no-op once isShuttingDown is set
StopBegun(life) ==
  IF life.isShuttingDown THEN life
  ELSE [life EXCEPT !.isShuttingDown = TRUE, !.stop = "stopping"]

\* stop() is called, by a caller of the exported bot or a signal handler,
\* or by the catch of start(), which then rethrows
BotStop(fromStart) ==
  /\ IF fromStart THEN botLife.start = "failing"
     ELSE botLife.start # "failing" /\ botLife.stops < MaxBotStops
  /\ botLife' = [StopBegun(botLife) EXCEPT
                   !.start = IF fromStart THEN "failed" ELSE @,
                   !.stops = botLife.stops + 1]
  /\ scheduled' = IF botLife.isShuttingDown THEN scheduled
                  ELSE scheduled \ TasksClearedBeforeAwait(botLife.services)
  /\ BotLifeFrame

\* the awaits of stop() are over (apiServer.stop, dbConnection.disconnect):
\* rpc.destroy() and isRunning = false, or the throw of a failed await
BotStopDone(ok) ==
  /\ botLife.stop = "stopping"
  /\ botLife' = IF ok THEN [botLife EXCEPT !.stop = "stopped", !.isRunning = FALSE]
                ELSE [botLife EXCEPT !.stop = "threw"]
  /\ scheduled' = IF ok THEN scheduled \ TasksClearedAtEnd(botLife.services)
                  ELSE scheduled
  /\ BotLifeFrame

BotLifeInit == DetInit

BotLifeNext ==
  \/ BotStart
  \/ \E outcome \in InitializeOutcomes : BotInitialized(outcome)
  \/ BotStartFetcher
  \/ BotStartDetector
  \/ \E ok \in BOOLEAN : BotApiStarted(ok)
  \/ \E fromStart \in BOOLEAN : BotStop(fromStart)
  \/ \E ok \in BOOLEAN : BotStopDone(ok)

(***************************************************************************)
(* Properties of the bot's start and stop (SpecBotLife)                    *)
(***************************************************************************)
\* C38: once stop() has completed on a bot whose start() had returned or
\* was never called, and until start() is called again, isRunning is false
\* and no periodic task of the bot or of its services is scheduled; and a
\* further stop() call changes nothing.
C38_StopLeavesNothingScheduled ==
  /\ [](botLife.stop = "stopped" /\ botLife.start \in {"idle", "started", "failed"}
          => ~botLife.isRunning /\ scheduled = {})
  /\ [][(botLife.stop = "stopped" /\ botLife'.stops > botLife.stops) =>
          (scheduled' = scheduled /\ botLife'.isRunning = botLife.isRunning)]_vars

(***************************************************************************)
(* Properties of the RPC manager (SpecRpc)                                 *)
(***************************************************************************)
\* the providers a run of execute invoked the call on changed between
\* consecutive invocations
SwitchedBetweenAttempts(exec) ==
  \A k \in 1..(Len(exec.providersTried) - 1) :
    exec.providersTried[k + 1] # exec.providersTried[k]

\* C29: execute invokes the call at most maxRetries (3) times; the step that
\* returns a result resets the current provider's error count; between two
\* failed attempts it switches to another healthy provider, so consecutive
\* invocations go to different providers; and a rejected execute carries
\* the error of the last invocation of the call.
C29_ExecuteRetriesAcrossProviders ==
  /\ [](/\ rpcExec.calls <= 3
        /\ SwitchedBetweenAttempts(rpcExec)
        /\ rpcExec.pc = "rejected" => rpcExec.error = rpcExec.lastCallError)
  /\ [][(rpcExec.pc # "returned" /\ rpcExec'.pc = "returned")
          => rpcProviders'[rpcCurrent'].errors = 0]_vars

\* C23: every external call is bounded by a timeout: an execute whose call
\* has been invoked on a provider eventually returns or rejects, even when
\* the provider never answers, so the price update, scan or simulation that
\* awaits it eventually completes.
C23_ExternalCallsAreBounded ==
  (rpcExec.pc = "call") ~> (rpcExec.pc \in {"returned", "rejected"})

\* C36: under any interleaving with the health check and with the calls of
\* other executes, execute invokes the call only on a provider whose
\* isHealthy flag is set at the moment of the invocation; an attempt that
\* finds no healthy provider invokes nothing and fails with 'No healthy
\* providers available'.
C36_CallsOnlyHealthyProviders ==
  /\ [](\A k \in 1..Len(rpcExec.invokedHealthy) : rpcExec.invokedHealthy[k])
  /\ [][(/\ rpcExec.pc \in {"attempt", "sleep"}
         /\ rpcExec' # rpcExec
         /\ availableProviders(rpcProviders) = << >>) =>
          /\ rpcExec'.calls = rpcExec.calls
          /\ rpcExec'.pc \in {"sleep", "rejected"}
          /\ rpcExec'.pc = "sleep" => rpcExec'.lastError = NoHealthyProviders
          /\ rpcExec'.pc = "rejected" => rpcExec'.error = NoHealthyProviders]_vars

\* providers.errors > 5, the count at which performHealthCheck logs the
\* provider as disabled
Disabled(p) == p.errors > 5

\* C37: a provider that has accumulated more than 5 health-check errors is
\* disabled for good: it is not marked healthy again, so that switchProvider,
\* which selects among the healthy providers, never selects it.
C37_DisabledProviderStaysDisabled ==
  \A p \in 1..Len(rpcProviders) : Disabled(rpcProviders[p]) => ~rpcProviders[p].isHealthy

Init == DetInit

Next == DetNext

Spec == Init /\ [][Next]_vars

SpecFn == FnInit /\ [][FnNext]_vars

SpecProfit == ProfInit /\ [][ProfNext]_vars

SpecSim == SimInit /\ [][SimNext]_vars

SpecBot == BotInit /\ [][BotNext]_vars

SpecSize == ProfInit /\ [][SizeNext]_vars

SpecGas == ProfInit /\ [][GasNext]_vars

SpecPrice == PxInit /\ [][PxNext]_vars

SpecHistory == HistoryInit /\ [][HistoryNext]_vars

SpecNorm == NormInit /\ [][NormNext]_vars

SpecLookup == LookupInit /\ [][LookupNext]_vars

SpecRoute == RouteInit /\ [][RouteNext]_vars

SpecRpc == RpcInit /\ [][RpcNext]_vars

\* the manager's own steps and timers are taken when they can be; whether a
\* provider ever answers a call is left open
SpecRpcLive ==
  /\ RpcInit
  /\ [][RpcNext]_vars
  /\ WF_vars(Initialize)
  /\ WF_vars(TestProviderTimeout)
  /\ WF_vars(ExecuteAttempt)
  /\ WF_vars(ExecuteSleepDone)

SpecStatus == DetInit /\ [][StatusNext]_vars

SpecCache == SimInit /\ [][CacheNext]_vars

SpecLife == LifeInit /\ [][LifeNext]_vars

SpecRpcConc == RpcInit /\ [][RpcConcNext]_vars

SpecBotLife == BotLifeInit /\ [][BotLifeNext]_vars

SpecMark == BotInit /\ [][MarkNext]_vars

SpecStore == DetInit /\ [][StoreNext]_vars

====
